---- MODULE Spec2Model ----
(***************************************************************************)
(* Model of the vault migration server (src/unnamed/part_002, lines 560    *)
(* to 2379): the retry executor retryWithBackoff, the per-vault migration  *)
(* migrateVault / migrateVaultWithProgress, the single-vault endpoint      *)
(* POST /migration/migrate-vault, the bulk endpoint                        *)
(* GET /migration/migrate-all-vaults and POST /migration/cancel.           *)
(*                                                                         *)
(* Scheduling: the server is one Node.js event loop.  A handler runs       *)
(* without interruption between two awaits of real I/O; another request    *)
(* (the cancellation) is served only while a handler is suspended.  Every  *)
(* action below is one such uninterrupted piece or a part of one; a finer  *)
(* split only lets the cancellation land between two parts, which is what  *)
(* a cancellation landing in the preceding await produces as well.         *)
(***************************************************************************)
EXTENDS Integers, Sequences, FiniteSets, TLC

\* ---------------------------------------------------------------- bounds
MaxItems == 3
MaxVaults == 2
MaxRetriesArg == 4
MaxFaults == 1
MaxFields == 1
MaxFiles == 1
MaxLen == 7
MaxSeedLen == 33
MaxLog == 5
MaxItemFiles == 2

\* ------------------------------------------------------ program constants
ITEM_CONCURRENCY_LIMIT == 1
DefaultMaxRetries == 3
DefaultBaseDelay == 1000
ProgressEvery == 3
Null == -1

VARIABLES
  isMigrationCancelled, \* module-level flag (line 832)
  pc,                   \* position of the running handler
  mode,                 \* "none" | "single" | "bulk" | "retry"
  totalVaults,          \* vaultsToMigrate.length (vaults are 1..totalVaults)
  vi,                   \* index of the vault of the bulk loop
  completedVaults,      \* bulk handler local
  bulkResults,          \* bulk handler local migrationResults (vault outcomes)
  lastEvent,            \* last event written to the event stream
  streamEnded,          \* res.end() was called
  response,             \* JSON response of the single-vault endpoint
  srcSize,              \* number of active items of the source vault (remote)
  sourceItemCount,      \* local of migrateVault*
  newVaultId,           \* local of migrateVault*; 0 while not created
  items,                \* local of migrateVault*: the enumerated items
  idx,                  \* position of the for-of loop over items
  category,             \* item.category of the item the loop is at
  migrationResults,     \* local of migrateVault*: per-item results
  processedItems, successCount, failureCount,
  logEntryStatus,       \* logEntry.status
  ret,                  \* value returned by migrateVault*, or NoRet
  thrown,               \* message of the error migrateVault* threw
  rt,                   \* state of the running retryWithBackoff call
  lastProgress,         \* arguments of the last onProgress call
  destCreated,          \* items really created in the destination vault
  lastTouched,          \* last item of this vault a remote call was issued for
  vaultTouched,         \* vaults a remote call was issued for
  itemsSeen,            \* source items met so far in the run (bounds it)
  customTemplateId,     \* customTemplateId of the request ("" when absent)
  cli,                  \* what the last createCustomItemViaCLI call did
  faults,               \* failures the environment produced so far (bounds them)
  item,                 \* the source item the loop body is building from
  newItem,              \* the item built for destSDK.client.items.create
  srcField,             \* a field as the SDK returns it
  newField,             \* the field a map callback made of it
  logger,               \* the LogManager of the module (line 758)
  listing,              \* the tasks of a running listVaultItems call
  pair,                 \* a migrateVault and a migrateVaultWithProgress call, run side by side
  destination,          \* the destination account: vaults the run created, items it wrote
  vaultManager          \* the vault manager: the module variables and requests of its
                        \* server, the checked permissions of its dialog

vars == << isMigrationCancelled, pc, mode, totalVaults, vi, completedVaults,
           bulkResults, lastEvent, streamEnded, response, srcSize,
           sourceItemCount, newVaultId, items, idx, category,
           migrationResults, processedItems, successCount, failureCount, logEntryStatus, ret,
           thrown, rt, lastProgress, destCreated, lastTouched, vaultTouched,
           itemsSeen, customTemplateId, cli, faults, item, newItem, srcField, newField, logger, listing, pair, destination,
                  vaultManager >>

\* ------------------------------------------------------------ error values
\* An error message is a sequence of phrases; String.includes(p) is "p is
\* one of the phrases".
Includes(message, phrase) == \E i \in 1..Len(message) : message[i] = phrase

RateLimitMsg == << "rate limit" >>
ConflictMsg == << "409", "data conflict" >>
ValidationMsg == << "validation" >>
NetworkMsg == << "network" >>
NoMsg == << >>

Messages == { RateLimitMsg, ConflictMsg, ValidationMsg, NetworkMsg }

\* The errors of a migration run: one in the transient class, and one that
\* is not, which stands for every message holding neither phrase, whether a
\* remote call or local code threw it.
OtherMsg == << "invalid" >>
OrchMessages == { RateLimitMsg, OtherMsg }

\* new Error(`${prefix}: ${error.message}`)
Wrap(prefix, message) == << prefix >> \o message

\* ---------------------------------------------------------- retryWithBackoff
NoErr == [message |-> NoMsg, call |-> 0]
RtIdle == [maxRetries |-> 0, baseDelay |-> 0, attempt |-> 0, calls |-> 0,
           waited |-> << >>, status |-> "idle", err |-> NoErr,
           last |-> NoErr]

\* The condition of the catch block (lines 849-852).
IsTransient(message) ==
  Includes(message, "data conflict") \/ Includes(message, "rate limit")

\* Entry of retryWithBackoff: attempt = 1; the for loop is not entered when
\* maxRetries < 1 and the function returns undefined.
RetryInit(maxRetries, baseDelay) ==
  [maxRetries |-> maxRetries, baseDelay |-> baseDelay, attempt |-> 1,
   calls |-> 0, waited |-> << >>,
   status |-> IF 1 <= maxRetries THEN "running" ELSE "returned",
   err |-> NoErr, last |-> NoErr]

\* Variant: the exponent is the attempt number itself.
BackoffDelay_OffByOne(baseDelay, attempt) == baseDelay * 2 ^ attempt

\* The delay of line 853.
BackoffDelay(baseDelay, attempt) == baseDelay * 2 ^ (attempt - 1)

\* Variant: the loop retries on its last iteration too (attempt <= maxRetries)
\* and then falls out of the for loop, returning undefined.
RetryAttempt_RetriesLast(r, outcome) ==
  LET e == [message |-> outcome, call |-> r.calls + 1] IN
  IF outcome = NoMsg
    THEN [r EXCEPT !.calls = @ + 1, !.status = "returned", !.last = NoErr]
  ELSE IF IsTransient(outcome) /\ r.attempt <= r.maxRetries
    THEN [r EXCEPT !.calls = @ + 1, !.attempt = @ + 1, !.last = e,
                   !.waited = Append(@, r.baseDelay * 2 ^ (r.attempt - 1)),
                   !.status = IF r.attempt + 1 <= r.maxRetries
                                THEN "running" ELSE "returned"]
  ELSE [r EXCEPT !.calls = @ + 1, !.status = "thrown", !.err = e, !.last = e]

\* Variant: every error is retried while attempts remain.
RetryAttempt_RetriesAll(r, outcome) ==
  LET e == [message |-> outcome, call |-> r.calls + 1] IN
  IF outcome = NoMsg
    THEN [r EXCEPT !.calls = @ + 1, !.status = "returned", !.last = NoErr]
  ELSE IF r.attempt < r.maxRetries
    THEN [r EXCEPT !.calls = @ + 1, !.attempt = @ + 1, !.last = e,
                   !.waited = Append(@, r.baseDelay * 2 ^ (r.attempt - 1))]
  ELSE [r EXCEPT !.calls = @ + 1, !.status = "thrown", !.err = e, !.last = e]

\* One iteration of the for loop: fn is invoked; outcome is NoMsg when it
\* succeeds and the message of the error it throws otherwise.  The backoff
\* wait of a retried attempt is part of the iteration.
RetryAttempt(r, outcome) ==
  LET e == [message |-> outcome, call |-> r.calls + 1] IN
  IF outcome = NoMsg
    THEN [r EXCEPT !.calls = @ + 1, !.status = "returned", !.last = NoErr]
  ELSE IF IsTransient(outcome) /\ r.attempt < r.maxRetries
    THEN [r EXCEPT !.calls = @ + 1, !.attempt = @ + 1, !.last = e,
                   !.waited = Append(@, BackoffDelay(r.baseDelay, r.attempt))]
  ELSE [r EXCEPT !.calls = @ + 1, !.status = "thrown", !.err = e, !.last = e]

\* ------------------------------------------------------------------- values
NoRet == [kind |-> "none"]
NoProgress == [itemsProcessed |-> 0, totalItems |-> 0, successCount |-> 0,
               failureCount |-> 0]
NoEvent == [kind |-> "none", finished |-> FALSE]
NoResponse == [status |-> 0]

\* customTemplateId of a request: absent or blank (""), or a template id.
TemplateIds == { "", "tpl" }

CliIdle == [step |-> "none", templates |-> "unread", tmpWritten |-> FALSE,
            tmpUnlinkCalled |-> FALSE, tmpLeft |-> FALSE, error |-> NoMsg]

\* new LogManager() (lines 576-583).
NewLogManager ==
  [globalLog |-> << >>, vaultLogs |-> << >>, errorCount |-> 0,
   warningCount |-> 0, failedItems |-> 0, vaultSummaries |-> {}]

\* A property that is absent (undefined).
Undefined == "undefined"

\* details of a field: whether details.content is there, and its
\* properties; a property that is absent is not in the domain.
NoDetails == [hasContent |-> FALSE, type |-> Undefined, content |-> << >>]

\* No field is in hand.
NoField == [id |-> "", title |-> << >>, fieldType |-> Undefined, value |-> << >>,
            sectionId |-> Undefined, details |-> NoDetails]

\* No item is being built.
NoItem == [category |-> "none", notes |-> << >>, fields |-> << >>,
           sections |-> << >>, files |-> << >>]

\* A call of migrateVault or migrateVaultWithProgress that has not begun:
\* its locals, the remote calls it issued, the entries it logged, the
\* onProgress calls it made, and how it ended.
NoCall ==
  [at |-> "none", sourceItemCount |-> 0, newVaultId |-> 0, total |-> 0,
   idx |-> 0, processedItems |-> 0, successCount |-> 0, failureCount |-> 0,
   migrationResults |-> << >>, logEntryStatus |-> "none", calls |-> << >>,
   logs |-> << >>, reported |-> << >>, raised |-> << >>,
   ret |-> NoRet, thrown |-> << >>]

\* The destination account before a run: the run has created no vault in it
\* and written no item to it.
NoDestination == [created |-> {}, writes |-> {}]

\* The vault manager server after start (lines 25-26, 63 of server.js):
\* no client, no account, no groups; listed is what the last successful
\* `op group list` returned and for which account, pending the accounts of
\* the requests suspended in sdk.createClient, attempts counts the requests;
\* checked is the set of checked permissions of the dialog of its page.
NoVaultManager ==
  [opClient |-> "null", selectedAccount |-> "null", accountGroups |-> << >>,
   groupsOf |-> "null", listed |-> << >>, pending |-> {}, attempts |-> 0,
   ended |-> [step |-> "none", account |-> "null", failedAt |-> "none",
              opClient |-> "null", selectedAccount |-> "null",
              accountGroups |-> << >>],
   groupsResponse |-> << >>, checked |-> {}]

\* No pair of calls is running.
NoPair == [plain |-> NoCall, progress |-> NoCall]

IdleVault ==
  /\ srcSize = 0 /\ sourceItemCount = 0 /\ newVaultId = 0 /\ items = << >>
  /\ idx = 0 /\ category = "none" /\ migrationResults = << >>
  /\ processedItems = 0
  /\ successCount = 0 /\ failureCount = 0 /\ logEntryStatus = "none"
  /\ ret = NoRet /\ thrown = NoMsg /\ lastProgress = NoProgress
  /\ destCreated = 0 /\ lastTouched = 0 /\ cli = CliIdle

IdleServer ==
  /\ isMigrationCancelled = FALSE
  /\ totalVaults = 0 /\ vi = 0 /\ completedVaults = 0 /\ bulkResults = << >>
  /\ lastEvent = NoEvent /\ streamEnded = FALSE /\ response = NoResponse
  /\ vaultTouched = {} /\ itemsSeen = 0 /\ customTemplateId = ""
  /\ faults = 0 /\ logger = NewLogManager
  /\ IdleVault

IdleItem ==
  /\ item = NoItem /\ newItem = NoItem
  /\ srcField = NoField /\ newField = NoField
  /\ listing = << >>
  /\ pair = NoPair
  /\ destination = NoDestination
  /\ vaultManager = NoVaultManager

Init ==
  /\ pc = "idle" /\ mode = "none" /\ rt = RtIdle
  /\ IdleServer /\ IdleItem

UnchangedVault ==
  UNCHANGED << srcSize, sourceItemCount, newVaultId, items, idx, category,
               migrationResults, processedItems, successCount, failureCount,
               logEntryStatus, ret, thrown, lastProgress, destCreated,
               lastTouched, cli >>

UnchangedHandler ==
  UNCHANGED << totalVaults, vi, completedVaults, bulkResults, lastEvent,
               streamEnded, response, customTemplateId, faults,
               item, newItem, srcField, newField, logger, listing, pair, destination,
                  vaultManager >>


\* ------------------------------------------------------------------- items
\* The failures of a run that are followed: at most MaxFaults operations of
\* the environment end in failure (a failed attempt that retryWithBackoff
\* retries is not the end of an operation, and the failure of a re-read
\* that the loop only logs does not end the item); n more are possible while
\* the budget lasts.
Faults(n) == faults + n <= MaxFaults /\ faults' = faults + n

\* The categories an enumerated item is given here: an SDK-constructible
\* one, one whose fields are re-read in the loop, the label the SDK reports
\* for a custom item, and two other spellings of the sentinel labels.
Categories == { "Login", "Document", "Unsupported", "CUSTOM", "UNSUPPORTED" }

\* The spellings ToLowerCase is defined on; sdk.ItemCategory.Custom is taken
\* to be the string "Custom".
CategorySpellings ==
  { "Login", "login", "Document", "document", "CreditCard", "creditcard",
    "Custom", "CUSTOM", "custom", "cUSTOM", "Unsupported", "UNSUPPORTED",
    "unsupported", "Customer", "customer", "Unsupported2", "unsupported2" }

\* String.prototype.toLowerCase on these spellings.
ToLowerCase(c) ==
  CASE c \in { "Unsupported", "UNSUPPORTED", "unsupported" } -> "unsupported"
    [] c \in { "CUSTOM", "Custom", "custom", "cUSTOM" } -> "custom"
    [] c \in { "Login", "login" } -> "login"
    [] c \in { "Document", "document" } -> "document"
    [] c \in { "CreditCard", "creditcard" } -> "creditcard"
    [] c \in { "Customer", "customer" } -> "customer"
    [] c \in { "Unsupported2", "unsupported2" } -> "unsupported2"
    [] OTHER -> c

\* Variant: only the three exact spellings are recognised.
IsCustomItem_ExactOnly(c) ==
  c = "CUSTOM" \/ c = "Custom" \/ c = "Unsupported"

\* isCustomItem (lines 1144-1152 and 1783-1791).
IsCustomItem(c) ==
  \/ c = "CUSTOM" \/ c = "Custom" \/ c = "Unsupported"
  \/ ToLowerCase(c) = "custom" \/ ToLowerCase(c) = "unsupported"

\* Items whose full record is re-read inside the loop (lines 1832, 1856).
NeedsFullItem(c) == c = "Document" \/ c = "CreditCard"

\* What listVaultItems can return for a vault of n items: the items whose
\* full fetch succeeded, in the order of the listing.  An item is named by
\* its position in the returned list; its category is an input the loop
\* reads when it reaches the item (variable category).
ItemLists(n) == { [i \in 1..m |-> i] : m \in 0..n }

Item(i) == [id |-> items[i], category |-> category]

\* getVaultItemCount: the active count, or 0 when the listing fails.
GetVaultItemCount(actual, ok) == IF ok THEN actual ELSE 0

\* ------------------------------------------------ per-item bookkeeping
\* The condition guarding onProgress (lines 1810, 2056, 2080).
ShouldReport(processed, total) ==
  processed % ProgressEvery = 0 \/ processed = total

Progress(processed, succ, fail) ==
  [itemsProcessed |-> processed, totalItems |-> Len(items),
   successCount |-> succ, failureCount |-> fail]

\* A number the handler computes by division, kept as a fraction.
Frac(n, d) == [num |-> n, den |-> d]

FracLeq(a, b) == a.num * b.den <= b.num * a.den

FracEq(a, b) == a.num * b.den = b.num * a.den

\* Variant: the vaults already completed are left out.
OverallProgress_CurrentOnly(completed, vaultProgress, total) ==
  Frac(100 * vaultProgress.num, total * vaultProgress.den)

\* ((completedVaults + vaultProgress) / totalVaults) * 100 (line 1607), and
\* with vaultProgress 0 the (completedVaults / totalVaults) * 100 of lines
\* 1591, 1650 and 1665.
OverallProgress(completed, vaultProgress, total) ==
  Frac(100 * (completed * vaultProgress.den + vaultProgress.num),
       total * vaultProgress.den)

\* onProgress is called by migrateVaultWithProgress only; the callback of
\* the bulk handler writes a "migrating" event (lines 1605-1622).
Report(processed, succ, fail) ==
  IF mode = "bulk" /\ ShouldReport(processed, Len(items))
    THEN /\ lastProgress' = Progress(processed, succ, fail)
         /\ lastEvent' =
              [kind |-> "migrating", finished |-> FALSE,
               progress |-> OverallProgress(completedVaults,
                                            Frac(processed, Len(items)),
                                            totalVaults)]
    ELSE UNCHANGED << lastProgress, lastEvent >>

\* Variant: the success branch forgets processedItems++.
ItemSucceeded_NoCount ==
  /\ processedItems' = processedItems
  /\ successCount' = successCount + 1
  /\ failureCount' = failureCount
  /\ migrationResults' =
       Append(migrationResults,
              [id |-> Item(idx).id, success |-> TRUE, error |-> NoMsg,
               progress |-> << processedItems * 100, Len(items) >>])
  /\ Report(processedItems, successCount + 1, failureCount)
  /\ idx' = idx + 1
  /\ category' = "none"
  /\ pc' = "i_check"

\* The success branch of the loop body (lines 1798-1814 and 2044-2058).
ItemSucceeded ==
  /\ processedItems' = processedItems + 1
  /\ successCount' = successCount + 1
  /\ failureCount' = failureCount
  /\ migrationResults' =
       Append(migrationResults,
              [id |-> Item(idx).id, success |-> TRUE, error |-> NoMsg,
               progress |-> << (processedItems + 1) * 100, Len(items) >>])
  /\ Report(processedItems + 1, successCount + 1, failureCount)
  /\ idx' = idx + 1
  /\ category' = "none"
  /\ pc' = "i_check"

\* Variant: the catch block forgets failureCount++.
ItemFailed_NoCount(message) ==
  /\ processedItems' = processedItems + 1
  /\ failureCount' = failureCount
  /\ successCount' = successCount
  /\ migrationResults' =
       Append(migrationResults,
              [id |-> Item(idx).id, success |-> FALSE, error |-> message,
               progress |-> << (processedItems + 1) * 100, Len(items) >>])
  /\ Report(processedItems + 1, successCount, failureCount)
  /\ idx' = idx + 1
  /\ category' = "none"
  /\ pc' = "i_check"

\* Variant: the loop stays at an item that failed.
ItemFailed_Again(message) ==
  /\ processedItems' = processedItems + 1
  /\ failureCount' = failureCount + 1
  /\ successCount' = successCount
  /\ migrationResults' =
       Append(migrationResults,
              [id |-> Item(idx).id, success |-> FALSE, error |-> message,
               progress |-> << (processedItems + 1) * 100, Len(items) >>])
  /\ Report(processedItems + 1, successCount, failureCount + 1)
  /\ idx' = idx
  /\ category' = "none"
  /\ pc' = "i_check"

\* The catch block of the loop body (lines 2060-2083).
ItemFailed(message) ==
  /\ processedItems' = processedItems + 1
  /\ failureCount' = failureCount + 1
  /\ successCount' = successCount
  /\ migrationResults' =
       Append(migrationResults,
              [id |-> Item(idx).id, success |-> FALSE, error |-> message,
               progress |-> << (processedItems + 1) * 100, Len(items) >>])
  /\ Report(processedItems + 1, successCount, failureCount + 1)
  /\ idx' = idx + 1
  /\ category' = "none"
  /\ pc' = "i_check"

\* --------------------------------------------------- POST /migration/cancel
\* Lines 835-839.  Requests that arrive after the run has ended are not
\* followed.
Cancel ==
  /\ pc # "done"
  /\ isMigrationCancelled' = TRUE
  /\ UNCHANGED << pc, mode, rt, vaultTouched, itemsSeen >>
  /\ UnchangedVault /\ UnchangedHandler

\* Another GET /migration/migrate-all-vaults served while a migration is
\* suspended in an await: with both tokens present it runs lines 1525-1557,
\* which reset the flag, up to its first await.  The request followed here is
\* one whose client initialization then fails (line 1561, caught at line
\* 1698): what it writes goes to its own response.
BulkRequestMeanwhile ==
  /\ pc \notin {"idle", "done", "retry"}
  /\ isMigrationCancelled' = FALSE
  /\ UNCHANGED << pc, mode, rt, vaultTouched, itemsSeen >>
  /\ UnchangedVault /\ UnchangedHandler

\* --------------------------------------------------- migrateVault* (entry)
\* The locals of a fresh call; the first await is getVaultItemCount.
EnterVault ==
  /\ srcSize' = 0 /\ sourceItemCount' = 0 /\ newVaultId' = 0
  /\ items' = << >> /\ idx' = 0 /\ category' = "none"
  /\ migrationResults' = << >>
  /\ processedItems' = 0 /\ successCount' = 0 /\ failureCount' = 0
  /\ logEntryStatus' = "in-progress" /\ ret' = NoRet /\ thrown' = NoMsg
  /\ lastProgress' = NoProgress /\ destCreated' = 0 /\ lastTouched' = 0
  /\ cli' = CliIdle

\* The call is over: its locals are gone.
LeaveVault ==
  /\ srcSize' = 0 /\ sourceItemCount' = 0 /\ newVaultId' = 0
  /\ items' = << >> /\ idx' = 0 /\ category' = "none"
  /\ migrationResults' = << >>
  /\ processedItems' = 0 /\ successCount' = 0 /\ failureCount' = 0
  /\ logEntryStatus' = "none" /\ ret' = NoRet /\ thrown' = NoMsg
  /\ lastProgress' = NoProgress /\ destCreated' = 0 /\ lastTouched' = 0
  /\ cli' = CliIdle

\* ----------------------------------------- POST /migration/migrate-vault
StartSingle ==
  /\ pc = "idle"
  /\ mode' = "single"
  /\ \E t \in TemplateIds : customTemplateId' = t
  /\ UNCHANGED << item, newItem, srcField, newField, logger, listing, pair, destination,
                  vaultManager >>
  /\ \E valid \in BOOLEAN :
       IF valid
         THEN /\ pc' = "single_init" /\ totalVaults' = 1 /\ vi' = 1
              /\ response' = response
         ELSE /\ pc' = "done" /\ response' = [status |-> 400]
              /\ UNCHANGED << totalVaults, vi >>
  /\ UNCHANGED << isMigrationCancelled, rt, vaultTouched, itemsSeen, faults, completedVaults,
                  bulkResults, lastEvent, streamEnded >>
  /\ UnchangedVault

\* initializeClient of both SDK instances, then the call of migrateVault.
SingleInit ==
  /\ pc = "single_init"
  /\ \E ok \in BOOLEAN :
       IF ok
         THEN /\ pc' = "v_count" /\ EnterVault /\ response' = response
         ELSE /\ pc' = "done" /\ response' = [status |-> 500]
              /\ UnchangedVault
  /\ UNCHANGED << isMigrationCancelled, mode, customTemplateId, item, newItem, srcField, newField, logger, listing, pair, destination, vaultManager, rt, vaultTouched, itemsSeen, faults, totalVaults,
                  vi, completedVaults, bulkResults, lastEvent, streamEnded >>

\* -------------------------------------- GET /migration/migrate-all-vaults
\* Lines 1524-1557: without both tokens a finished event is written and the
\* stream ends; otherwise the flag is reset and the run begins.
StartBulk ==
  /\ pc = "idle"
  /\ mode' = "bulk"
  /\ \E t \in TemplateIds : customTemplateId' = t
  /\ UNCHANGED << item, newItem, srcField, newField, logger, listing, pair, destination,
                  vaultManager >>
  /\ \E tokens \in BOOLEAN :
       IF tokens
         THEN /\ isMigrationCancelled' = FALSE
              /\ pc' = "bulk_init"
              /\ UNCHANGED << lastEvent, streamEnded >>
         ELSE /\ lastEvent' = [kind |-> "rejected", finished |-> TRUE]
              /\ streamEnded' = TRUE
              /\ pc' = "done"
              /\ UNCHANGED isMigrationCancelled
  /\ UNCHANGED << rt, vaultTouched, itemsSeen, faults, totalVaults, vi,
                  completedVaults, bulkResults, response >>
  /\ UnchangedVault

\* Lines 1559-1575: both clients are initialized and the vaults chosen (the
\* selection, or listVaults); a failure is caught at line 1698.
BulkInit ==
  /\ pc = "bulk_init"
  /\ \E ok \in BOOLEAN, n \in 0..MaxVaults :
       IF ok
         THEN /\ totalVaults' = n /\ vi' = 1 /\ completedVaults' = 0
              /\ bulkResults' = << >> /\ pc' = "bulk_check"
              /\ UNCHANGED << lastEvent, streamEnded >>
         ELSE /\ lastEvent' = [kind |-> "fatal", finished |-> TRUE]
              /\ streamEnded' = TRUE /\ pc' = "done"
              /\ UNCHANGED << totalVaults, vi, completedVaults, bulkResults >>
  /\ UNCHANGED << isMigrationCancelled, mode, customTemplateId, item, newItem, srcField, newField, logger, listing, pair, destination, vaultManager, rt, vaultTouched, itemsSeen, faults,
                  response >>
  /\ UnchangedVault

\* Variant: the loop over the vaults has no cancellation check.
BulkCheck_SkipsCancel ==
  /\ pc = "bulk_check" /\ vi <= totalVaults
  /\ lastEvent' = [kind |-> "preparing", finished |-> FALSE,
                            progress |-> OverallProgress(completedVaults,
                                                         Frac(0, 1),
                                                         totalVaults)]
  /\ pc' = "v_count"
  /\ EnterVault
  /\ UNCHANGED << streamEnded, isMigrationCancelled, mode, customTemplateId, item, newItem, srcField, newField, logger, listing, pair, destination, vaultManager, rt, vaultTouched,
                  itemsSeen, faults, totalVaults, vi, completedVaults, bulkResults,
                  response >>

\* Head of the loop over the vaults (lines 1577-1629): the cancellation
\* check, else the "preparing" event and the call of
\* migrateVaultWithProgress.
BulkCheck ==
  /\ pc = "bulk_check" /\ vi <= totalVaults
  /\ IF isMigrationCancelled
       THEN /\ lastEvent' = [kind |-> "cancelled", finished |-> FALSE]
            /\ streamEnded' = TRUE
            /\ pc' = "done"
            /\ UnchangedVault
       ELSE /\ lastEvent' = [kind |-> "preparing", finished |-> FALSE,
                            progress |-> OverallProgress(completedVaults,
                                                         Frac(0, 1),
                                                         totalVaults)]
            /\ pc' = "v_count"
            /\ EnterVault
            /\ UNCHANGED streamEnded
  /\ UNCHANGED << isMigrationCancelled, mode, customTemplateId, item, newItem, srcField, newField, logger, listing, pair, destination, vaultManager, rt, vaultTouched, itemsSeen, faults, totalVaults,
                  vi, completedVaults, bulkResults, response >>

\* Variant: success looks at the failure count only.
VaultOutcome_IgnoresCounts(v, r) ==
  [vaultId |-> v,
   success |-> (r.failureCount = 0),
   phase |-> "completed",
   error |-> NoMsg,
   results |-> r.migrationResults,
   itemsLength |-> r.itemsLength,
   sourceItemCount |-> r.sourceItemCount,
   destItemCount |-> r.destItemCount,
   successCount |-> r.successCount,
   failureCount |-> r.failureCount]

\* The outcome of a vault whose migration returned (lines 1631-1646).
VaultOutcome(v, r) ==
  [vaultId |-> v,
   success |-> (r.failureCount = 0 /\ r.sourceItemCount = r.destItemCount),
   phase |-> "completed",
   error |-> NoMsg,
   results |-> r.migrationResults,
   itemsLength |-> r.itemsLength,
   sourceItemCount |-> r.sourceItemCount,
   destItemCount |-> r.destItemCount,
   successCount |-> r.successCount,
   failureCount |-> r.failureCount]

\* The outcome of a vault whose migration threw (lines 1655-1662).
FailedOutcome(v, message) ==
  [vaultId |-> v, success |-> FALSE, phase |-> "failed", error |-> message,
   results |-> << >>, itemsLength |-> 0, sourceItemCount |-> Null,
   destItemCount |-> Null, successCount |-> Null, failureCount |-> Null]

\* Lines 1631-1651.
BulkVaultDone ==
  /\ pc = "v_return" /\ mode = "bulk"
  /\ bulkResults' = Append(bulkResults, VaultOutcome(vi, ret))
  /\ completedVaults' = completedVaults + 1
  /\ lastEvent' = [kind |-> "outcome", finished |-> FALSE,
                progress |-> OverallProgress(completedVaults + 1, Frac(0, 1),
                                             totalVaults)]
  /\ vi' = vi + 1
  /\ pc' = "bulk_check"
  /\ LeaveVault
  /\ UNCHANGED << isMigrationCancelled, mode, customTemplateId, item, newItem, srcField, newField, logger, listing, pair, destination, vaultManager, rt, vaultTouched, itemsSeen, faults, totalVaults,
                  streamEnded, response >>

\* Variant: a vault that threw ends the run.
BulkVaultFailed_EndsRun ==
  /\ pc = "v_threw" /\ mode = "bulk"
  /\ bulkResults' = Append(bulkResults, FailedOutcome(vi, thrown))
  /\ completedVaults' = completedVaults + 1
  /\ lastEvent' = [kind |-> "fatal", finished |-> TRUE]
  /\ streamEnded' = TRUE
  /\ vi' = vi + 1
  /\ pc' = "done"
  /\ LeaveVault
  /\ UNCHANGED << isMigrationCancelled, mode, customTemplateId, item, newItem, srcField, newField, logger, listing, pair, destination, vaultManager, rt, vaultTouched, itemsSeen, faults,
                  totalVaults, response >>

\* Lines 1653-1667.
BulkVaultFailed ==
  /\ pc = "v_threw" /\ mode = "bulk"
  /\ bulkResults' = Append(bulkResults, FailedOutcome(vi, thrown))
  /\ completedVaults' = completedVaults + 1
  /\ lastEvent' = [kind |-> "outcome", finished |-> FALSE,
                progress |-> OverallProgress(completedVaults + 1, Frac(0, 1),
                                             totalVaults)]
  /\ vi' = vi + 1
  /\ pc' = "bulk_check"
  /\ LeaveVault
  /\ UNCHANGED << isMigrationCancelled, mode, customTemplateId, item, newItem, srcField, newField, logger, listing, pair, destination, vaultManager, rt, vaultTouched, itemsSeen, faults, totalVaults,
                  streamEnded, response >>

\* After the loop (lines 1670-1696): the finished event and the end of the
\* stream.
BulkFinish ==
  /\ pc = "bulk_check" /\ vi > totalVaults
  /\ LET failedVaults ==
           { i \in 1..Len(bulkResults) : ~bulkResults[i].success } IN
       lastEvent' = [kind |-> "summary", finished |-> TRUE,
                     success |-> (failedVaults = {})]
  /\ streamEnded' = TRUE
  /\ pc' = "done"
  /\ UNCHANGED << isMigrationCancelled, mode, customTemplateId, item, newItem, srcField, newField, logger, listing, pair, destination, vaultManager, rt, vaultTouched, itemsSeen, faults, totalVaults,
                  vi, completedVaults, bulkResults, response >>
  /\ UnchangedVault

\* Lines 1496-1516: the response of the single-vault endpoint.
SingleDone ==
  /\ pc = "v_return" /\ mode = "single"
  /\ response' =
       [status |-> 200,
        success |-> ~(ret.failureCount > 0
                      \/ ret.sourceItemCount # ret.destItemCount),
        results |-> ret.migrationResults,
        stats |-> [successCount |-> ret.successCount,
                   failureCount |-> ret.failureCount,
                   sourceItemCount |-> ret.sourceItemCount,
                   destItemCount |-> ret.destItemCount]]
  /\ pc' = "done"
  /\ LeaveVault
  /\ UNCHANGED << isMigrationCancelled, mode, customTemplateId, item, newItem, srcField, newField, logger, listing, pair, destination, vaultManager, rt, vaultTouched, itemsSeen, faults, totalVaults,
                  vi, completedVaults, bulkResults, lastEvent, streamEnded >>

\* Lines 1517-1520.
SingleFailed ==
  /\ pc = "v_threw" /\ mode = "single"
  /\ response' = [status |-> 500]
  /\ pc' = "done"
  /\ LeaveVault
  /\ UNCHANGED << isMigrationCancelled, mode, customTemplateId, item, newItem, srcField, newField, logger, listing, pair, destination, vaultManager, rt, vaultTouched, itemsSeen, faults, totalVaults,
                  vi, completedVaults, bulkResults, lastEvent, streamEnded >>

\* ------------------------------ migrateVault / migrateVaultWithProgress
UnchangedLoop ==
  UNCHANGED << idx, category, migrationResults, processedItems, successCount,
               failureCount, lastProgress, lastEvent, cli >>

UnchangedOuter ==
  UNCHANGED << isMigrationCancelled, mode, totalVaults, vi, completedVaults,
               bulkResults, streamEnded, response, customTemplateId,
               item, newItem, srcField, newField, logger, listing, pair, destination,
                  vaultManager >>

\* `op vault create` with the destination token succeeded for the source
\* vault v (lines 1092-1099, 1731-1738): the destination account has a new
\* vault, whose id the command printed.
VaultCreated(d, v) == [d EXCEPT !.created = @ \cup { v }]

\* An item of source vault v was created in the vault with id target of the
\* destination account: destSDK.client.items.create of an item with vaultId:
\* newVaultId (lines 1817-1821, 2042), or `op item create --vault
\* ${destVaultId}` with the destination token (lines 994-1001).
ItemWritten(d, v, target) ==
  [d EXCEPT !.writes = @ \cup { [source |-> v, vault |-> target] }]

\* What a step that creates a vault or writes an item leaves alone.
UnchangedOuterButDestination ==
  UNCHANGED << isMigrationCancelled, mode, totalVaults, vi, completedVaults,
               bulkResults, streamEnded, response, customTemplateId,
               item, newItem, srcField, newField, logger, listing, pair,
               vaultManager >>

\* await getVaultItemCount(vaultId, sourceToken) (lines 1086, 1725).
VaultCount ==
  /\ pc = "v_count"
  /\ \E n \in 0..(MaxItems - itemsSeen), ok \in BOOLEAN :
       /\ srcSize' = n
       /\ itemsSeen' = itemsSeen + n
       /\ sourceItemCount' = GetVaultItemCount(n, ok)
       /\ Faults(IF ok THEN 0 ELSE 1)
  /\ vaultTouched' = vaultTouched \cup {vi}
  /\ pc' = "v_create"
  /\ UNCHANGED << newVaultId, items, logEntryStatus, ret, thrown, rt,
                  destCreated, lastTouched >>
  /\ UnchangedLoop /\ UnchangedOuter

\* Variant: a failed vault creation is only logged and the items are listed.
VaultCreate_Swallows ==
  /\ pc = "v_create"
  /\ \E outcome \in OrchMessages \cup {NoMsg} :
       /\ newVaultId' = IF outcome = NoMsg THEN vi ELSE newVaultId
       /\ destination' = IF outcome = NoMsg
                           THEN VaultCreated(destination, vi)
                           ELSE destination
       /\ Faults(IF outcome = NoMsg THEN 0 ELSE 1)
       /\ pc' = "v_list"
  /\ UNCHANGED << logEntryStatus, thrown, srcSize, sourceItemCount, items, ret,
                  rt, destCreated, lastTouched, vaultTouched, itemsSeen >>
  /\ UnchangedLoop /\ UnchangedOuterButDestination

\* execSync(`op vault create ...`) (lines 1092-1103, 1731-1742); its error
\* is rethrown and leaves through the outer catch (lines 1466, 2121).
VaultCreate ==
  /\ pc = "v_create"
  /\ \E outcome \in OrchMessages \cup {NoMsg} :
       IF outcome = NoMsg
         THEN /\ newVaultId' = vi /\ pc' = "v_list"
              /\ destination' = VaultCreated(destination, vi)
              /\ Faults(0)
              /\ UNCHANGED << logEntryStatus, thrown >>
         ELSE /\ thrown' = Wrap("Vault creation failed", outcome)
              /\ Faults(1)
              /\ logEntryStatus' = "failed" /\ pc' = "v_threw"
              /\ UNCHANGED << newVaultId, destination,
                  vaultManager >>
  /\ UNCHANGED << srcSize, sourceItemCount, items, ret, rt, destCreated,
                  lastTouched, vaultTouched, itemsSeen >>
  /\ UnchangedLoop /\ UnchangedOuterButDestination

\* await sourceSDK.listVaultItems(vaultId) (lines 1106-1113, 1745-1752).
VaultList ==
  /\ pc = "v_list"
  /\ \/ /\ \E its \in ItemLists(srcSize) :
             /\ items' = its
             /\ Faults(IF Len(its) = srcSize THEN 0 ELSE 1)
        /\ idx' = 1 /\ pc' = "i_check"
        /\ UNCHANGED << logEntryStatus, thrown >>
     \/ /\ \E outcome \in OrchMessages :
             thrown' = Wrap("Item listing failed",
                            Wrap("Failed to list items for vault", outcome))
        /\ Faults(1)
        /\ logEntryStatus' = "failed" /\ pc' = "v_threw"
        /\ UNCHANGED << items, idx >>
  /\ UNCHANGED << category, srcSize, sourceItemCount, newVaultId, ret, rt, destCreated,
                  cli,
                  lastTouched, vaultTouched, itemsSeen, migrationResults,
                  processedItems,
                  successCount, failureCount, lastProgress, lastEvent >>
  /\ UnchangedOuter

\* The value returned at the cancellation check (lines 1125-1132).
CancelledResult ==
  [kind |-> "result", itemsLength |-> Len(items),
   migrationResults |-> migrationResults,
   sourceItemCount |-> sourceItemCount, destItemCount |-> Null,
   successCount |-> successCount, failureCount |-> failureCount]

\* Variant: the loop over the items has no cancellation check.
ItemCheck_SkipsCancel ==
  /\ pc = "i_check" /\ idx <= Len(items)
  /\ UNCHANGED << logEntryStatus, ret >>
  /\ \E c \in Categories :
       /\ category' = c
       /\ IF IsCustomItem(c)
            THEN pc' = "i_cli" /\ rt' = rt
            ELSE /\ pc' = IF NeedsFullItem(c) THEN "i_get" ELSE "i_create"
                 /\ rt' = RetryInit(DefaultMaxRetries, DefaultBaseDelay)
  /\ cli' = CliIdle /\ Faults(0)
  /\ UNCHANGED << srcSize, sourceItemCount, newVaultId, items, thrown,
                  destCreated, lastTouched, vaultTouched, itemsSeen, idx,
                  migrationResults, processedItems, successCount,
                  failureCount, lastProgress, lastEvent >>
  /\ UnchangedOuter

\* Head of the loop over the items (lines 1121-1154, 1760-1793): the
\* cancellation check, then the routing of the item.
ItemCheck ==
  /\ pc = "i_check" /\ idx <= Len(items)
  /\ IF isMigrationCancelled
       THEN /\ logEntryStatus' = "cancelled"
            /\ ret' = CancelledResult
            /\ pc' = "v_return"
            /\ UNCHANGED << rt, category >>
       ELSE /\ UNCHANGED << logEntryStatus, ret >>
            /\ \E c \in Categories :
                 /\ category' = c
                 /\ IF IsCustomItem(c)
                      THEN pc' = "i_cli" /\ rt' = rt
                      ELSE /\ pc' = IF NeedsFullItem(c) THEN "i_get"
                                                       ELSE "i_create"
                           /\ rt' = RetryInit(DefaultMaxRetries,
                                              DefaultBaseDelay)
  /\ cli' = CliIdle /\ Faults(0)
  /\ UNCHANGED << srcSize, sourceItemCount, newVaultId, items, thrown,
                  destCreated, lastTouched, vaultTouched, itemsSeen, idx,
                  migrationResults, processedItems, successCount,
                  failureCount, lastProgress, lastEvent >>
  /\ UnchangedOuter

\* What a createCustomItemViaCLI call meets: the outcome of `op item get`
\* and of parsing its output, what `op item template list` answers (a list
\* with a custom template, a list without one, or an error), whether
\* writeFileSync succeeds, the outcome of `op item create`, and whether
\* unlinkSync succeeds.
BridgeEnvs ==
  [get : {NoMsg, OtherMsg}, templates : {"found", "none", "failed"},
   write : BOOLEAN, create : OrchMessages \cup {NoMsg}, unlink : BOOLEAN]

TemplateHint == "Please provide a Custom Template UUID in the connection form"

\* The error of line 918.
NoTemplateMsg ==
  << "No CUSTOM template found in destination account",
     "Please provide a Custom Template UUID in the connection form or ensure custom templates are enabled" >>

\* The error of line 925.
TemplateError(message) ==
  << "Failed to get CUSTOM template" >> \o message \o << TemplateHint >>

\* Variant: the temporary file is removed after a successful create only
\* (no finally).
CreateCustomItemViaCLI_NoFinally(templateId, env) ==
  IF env.get # NoMsg
    THEN [CliIdle EXCEPT !.step = "get", !.error = env.get]
  ELSE IF templateId = "" /\ env.templates = "failed"
    THEN [CliIdle EXCEPT !.step = "template", !.templates = "failed",
                         !.error = TemplateError(OtherMsg)]
  ELSE IF templateId = "" /\ env.templates = "none"
    THEN [CliIdle EXCEPT !.step = "template", !.templates = "none",
                         !.error = TemplateError(NoTemplateMsg)]
  ELSE LET t == IF templateId = "" THEN "found" ELSE "unread" IN
       IF ~env.write
         THEN [CliIdle EXCEPT !.step = "write", !.templates = t,
                              !.error = OtherMsg]
         ELSE [step |-> IF env.create = NoMsg THEN "done" ELSE "create",
               templates |-> t, tmpWritten |-> TRUE,
               tmpUnlinkCalled |-> (env.create = NoMsg),
               tmpLeft |-> (env.create # NoMsg \/ ~env.unlink),
               error |-> env.create]

\* Variant: without a custom template the item is created with no template
\* id.
CreateCustomItemViaCLI_NoTemplateCheck(templateId, env) ==
  IF env.get # NoMsg
    THEN [CliIdle EXCEPT !.step = "get", !.error = env.get]
  ELSE IF templateId = "" /\ env.templates = "failed"
    THEN [CliIdle EXCEPT !.step = "template", !.templates = "failed",
                         !.error = TemplateError(OtherMsg)]
  ELSE LET t == IF templateId = "" THEN env.templates ELSE "unread" IN
       IF ~env.write
         THEN [CliIdle EXCEPT !.step = "write", !.templates = t,
                              !.error = OtherMsg]
         ELSE [step |-> IF env.create = NoMsg THEN "done" ELSE "create",
               templates |-> t, tmpWritten |-> TRUE,
               tmpUnlinkCalled |-> TRUE, tmpLeft |-> ~env.unlink,
               error |-> env.create]

\* createCustomItemViaCLI (lines 864-1040): the steps it goes through and
\* the error it throws (NoMsg when it returns).  Step 1 reads the item
\* (lines 878-884); the template id is the one supplied, else the one of the
\* custom template of the destination (lines 900-927); the item is written
\* to the temporary file (line 992); `op item create` runs inside try, and
\* finally calls unlinkSync, whose own error is only logged (lines
\* 994-1028).
CreateCustomItemViaCLI(templateId, env) ==
  IF env.get # NoMsg
    THEN [CliIdle EXCEPT !.step = "get", !.error = env.get]
  ELSE IF templateId = "" /\ env.templates = "failed"
    THEN [CliIdle EXCEPT !.step = "template", !.templates = "failed",
                         !.error = TemplateError(OtherMsg)]
  ELSE IF templateId = "" /\ env.templates = "none"
    THEN [CliIdle EXCEPT !.step = "template", !.templates = "none",
                         !.error = TemplateError(NoTemplateMsg)]
  ELSE LET t == IF templateId = "" THEN "found" ELSE "unread" IN
       IF ~env.write
         THEN [CliIdle EXCEPT !.step = "write", !.templates = t,
                              !.error = OtherMsg]
         ELSE [step |-> IF env.create = NoMsg THEN "done" ELSE "create",
               templates |-> t, tmpWritten |-> TRUE,
               tmpUnlinkCalled |-> TRUE, tmpLeft |-> ~env.unlink,
               error |-> env.create]

\* The call of createCustomItemViaCLI by the loop (lines 1157, 1796).  The
\* function is synchronous (execSync throughout): one step.  Its error is
\* rethrown (line 1038) and caught by the catch block of the loop.
ItemCLI ==
  /\ pc = "i_cli"
  /\ lastTouched' = idx
  /\ \E env \in BridgeEnvs :
       LET r == CreateCustomItemViaCLI(customTemplateId, env) IN
       /\ cli' = r
       /\ Faults(IF r.error = NoMsg THEN 0 ELSE 1)
       /\ IF r.error = NoMsg
            THEN /\ destCreated' = destCreated + 1
                 /\ destination' = ItemWritten(destination, vi, newVaultId)
                 /\ ItemSucceeded
            ELSE /\ destCreated' = destCreated
                 /\ destination' = destination
                 /\ ItemFailed(r.error)
  /\ UNCHANGED << srcSize, sourceItemCount, newVaultId, items,
                  logEntryStatus, ret, thrown, rt, vaultTouched, itemsSeen >>
  /\ UnchangedOuterButDestination

\* retryWithBackoff(() => sourceSDK.client.items.get(...)) of a document or
\* credit-card item (lines 1834, 1859); a failure is caught and logged as a
\* warning (lines 1845, 1921), and the item goes on.
ItemGet ==
  /\ pc = "i_get"
  /\ lastTouched' = idx
  /\ \E outcome \in OrchMessages \cup {NoMsg}, validDocument \in BOOLEAN :
       LET r == RetryAttempt(rt, outcome) IN
       /\ Faults(0)
       /\ IF r.status = "running"
            THEN rt' = r /\ pc' = pc
            ELSE /\ rt' = RetryInit(DefaultMaxRetries, DefaultBaseDelay)
                 /\ pc' = IF /\ r.status = "returned"
                             /\ Item(idx).category = "Document"
                             /\ validDocument
                            THEN "i_read" ELSE "i_create"
  /\ UNCHANGED << srcSize, sourceItemCount, newVaultId, items,
                  logEntryStatus, ret, thrown, destCreated, vaultTouched,
                  itemsSeen >>
  /\ UnchangedLoop /\ UnchangedOuter

\* retryWithBackoff(() => sourceSDK.client.items.files.read(...)) of a
\* document (line 1838); a failure is a warning as well.
ItemRead ==
  /\ pc = "i_read"
  /\ lastTouched' = idx
  /\ \E outcome \in OrchMessages \cup {NoMsg} :
       LET r == RetryAttempt(rt, outcome) IN
       /\ Faults(0)
       /\ IF r.status = "running"
            THEN rt' = r /\ pc' = pc
            ELSE /\ rt' = RetryInit(DefaultMaxRetries, DefaultBaseDelay)
                 /\ pc' = "i_create"
  /\ UNCHANGED << srcSize, sourceItemCount, newVaultId, items,
                  logEntryStatus, ret, thrown, destCreated, vaultTouched,
                  itemsSeen >>
  /\ UnchangedLoop /\ UnchangedOuter

\* The rest of the loop body of an SDK item: newItem is built (lines
\* 1817-2039), then await retryWithBackoff(() =>
\* destSDK.client.items.create(newItem)) (lines 1397, 2042), one attempt per
\* step, and what follows its end.  A throw while building reaches the
\* catch block without any call of create.
ItemCreate ==
  /\ pc = "i_create"
  /\ \/ /\ rt.calls = 0
        /\ Faults(1)
        /\ rt' = RtIdle /\ destCreated' = destCreated
        /\ destination' = destination
        /\ lastTouched' = lastTouched
        /\ ItemFailed(OtherMsg)
     \/ /\ lastTouched' = idx
        /\ \E outcome \in OrchMessages \cup {NoMsg} :
             LET r == RetryAttempt(rt, outcome) IN
             /\ Faults(IF r.status = "thrown" THEN 1 ELSE 0)
             /\ CASE r.status = "running" ->
                       /\ rt' = r /\ pc' = pc /\ destCreated' = destCreated
                       /\ destination' = destination
                       /\ UnchangedLoop
                  [] r.status = "returned" ->
                       /\ rt' = RtIdle /\ destCreated' = destCreated + 1
                       /\ destination' =
                            ItemWritten(destination, vi, newVaultId)
                       /\ ItemSucceeded
                  [] OTHER ->
                       /\ rt' = RtIdle /\ destCreated' = destCreated
                       /\ destination' = destination
                       /\ ItemFailed(r.err.message)
  /\ UNCHANGED << srcSize, sourceItemCount, newVaultId, items,
                  logEntryStatus, ret, thrown, vaultTouched, itemsSeen, cli >>
  /\ UnchangedOuterButDestination

\* The value returned after the loop (lines 1457-1464, 2112-2119).
CompletedResult(destCount) ==
  [kind |-> "result", itemsLength |-> Len(items),
   migrationResults |-> migrationResults,
   sourceItemCount |-> sourceItemCount, destItemCount |-> destCount,
   successCount |-> successCount, failureCount |-> failureCount]

\* After the loop (lines 1431-1464, 2086-2119): the destination count is
\* read again.  The destination vault was created by this call and holds
\* what the loop created in it.
VaultRecount ==
  /\ pc = "i_check" /\ idx > Len(items)
  /\ \E ok \in BOOLEAN :
       /\ ret' = CompletedResult(GetVaultItemCount(destCreated, ok))
       /\ Faults(IF ok THEN 0 ELSE 1)
  /\ logEntryStatus' = "completed"
  /\ pc' = "v_return"
  /\ UNCHANGED << srcSize, sourceItemCount, newVaultId, items, thrown, rt,
                  destCreated, lastTouched, vaultTouched, itemsSeen >>
  /\ UnchangedLoop /\ UnchangedOuter

Next ==
  \/ Cancel
  \/ BulkRequestMeanwhile
  \/ StartSingle
  \/ SingleInit
  \/ SingleDone
  \/ SingleFailed
  \/ StartBulk
  \/ BulkInit
  \/ BulkCheck
  \/ BulkVaultDone
  \/ BulkVaultFailed
  \/ BulkFinish
  \/ VaultCount
  \/ VaultCreate
  \/ VaultList
  \/ ItemCheck
  \/ ItemCLI
  \/ ItemGet
  \/ ItemRead
  \/ ItemCreate
  \/ VaultRecount

Spec == Init /\ [][Next]_vars

\* ------------------------------------------- the retry executor on its own
InitRetry ==
  /\ pc = "retry" /\ mode = "retry"
  /\ \E m \in 0..MaxRetriesArg, b \in {DefaultBaseDelay, 250, 1} :
       rt = RetryInit(m, b)
  /\ IdleServer /\ IdleItem

RetryCall ==
  /\ pc = "retry" /\ rt.status = "running"
  /\ \E outcome \in Messages \cup {NoMsg} : rt' = RetryAttempt(rt, outcome)
  /\ UNCHANGED << isMigrationCancelled, pc, mode, vaultTouched, itemsSeen >>
  /\ UnchangedVault /\ UnchangedHandler

NextRetry == RetryCall

SpecRetry == InitRetry /\ [][NextRetry]_vars

\* ===================================================================
\* Field values (lines 1860-1980)
\* ===================================================================
\* A string whose characters the code looks at is the sequence of its
\* characters.
Digits == { "0", "1", "2", "3", "4", "5", "6", "7", "8", "9" }

UpperLetters == << "A", "B", "C", "D", "E", "F", "G", "H", "I", "J", "K", "L", "M", "N", "O", "P", "Q", "R", "S", "T", "U", "V", "W", "X", "Y", "Z" >>

LowerLetters == << "a", "b", "c", "d", "e", "f", "g", "h", "i", "j", "k", "l", "m", "n", "o", "p", "q", "r", "s", "t", "u", "v", "w", "x", "y", "z" >>

\* String.prototype.toLowerCase, character by character.
ToLowerChar(c) ==
  IF \E i \in 1..26 : UpperLetters[i] = c
    THEN LowerLetters[CHOOSE i \in 1..26 : UpperLetters[i] = c]
    ELSE c

LowerCaseOf(s) == [i \in 1..Len(s) |-> ToLowerChar(s[i])]

\* String.prototype.includes and startsWith on such strings.
IncludesString(s, w) ==
  \E i \in 0..(Len(s) - Len(w)) : SubSeq(s, i + 1, i + Len(w)) = w

StartsWith(s, p) == Len(s) >= Len(p) /\ SubSeq(s, 1, Len(p)) = p

\* String.prototype.replace(a, b) with a one-character pattern: the first
\* occurrence is replaced.
ReplaceFirst(s, a, b) ==
  IF \E i \in 1..Len(s) : s[i] = a
    THEN LET k == CHOOSE i \in 1..Len(s) :
                    s[i] = a /\ \A j \in 1..(i - 1) : s[j] # a
         IN  [s EXCEPT ![k] = b]
    ELSE s

AllDigits(s, from, to) == \A i \in from..to : s[i] \in Digits

\* /^\d{2}\/\d{4}$/ and /^\d{2}-\d{4}$/ (lines 1885, 1887).
IsMonthSepYear(s, sep) ==
  Len(s) = 7 /\ AllDigits(s, 1, 2) /\ s[3] = sep /\ AllDigits(s, 4, 7)

\* /^\d{2}\d{2}$/ (line 1889).
IsMMYY(s) == Len(s) = 4 /\ AllDigits(s, 1, 4)

\* /^\d{2}\/\d{2}$/ (line 1891).
IsMonthSlashYY(s) ==
  Len(s) = 5 /\ AllDigits(s, 1, 2) /\ s[3] = "/" /\ AllDigits(s, 4, 5)

DefaultExpiry == << "0", "1", "/", "1", "9", "7", "0" >>

NotAString == << "[object]" >>

\* ===================================================================
\* The item handed to destSDK.client.items.create (lines 1817-2042)
\* ===================================================================
\* What the loop body reads of an SDK item and writes to newItem, as far as
\* field types and sections go: category, fields, sections and files.  Title,
\* notes, tags, websites and the document are copied without reference to
\* them and are left out.

\* The field types of the conditional chain of lines 1932-1943.
KnownFieldTypes ==
  { "Text", "Concealed", "Totp", "Address", "SshKey", "Date", "MonthYear",
    "Email", "Phone", "Url", "Menu" }

\* The field types the loop body can write by itself: the chain, and the
\* types the credit-card rules assign (lines 1871, 1896).
AcceptedFieldTypes == KnownFieldTypes \cup { "CreditCardType", "CreditCardNumber" }

\* builtInFieldIds (line 1868).
BuiltInFieldIds == { "cardholder", "type", "number", "ccnum", "cvv", "expiry" }

\* cardTypeMap[...] (lines 1872-1878), applied to value.toLowerCase(): the
\* four own keys, and the two lower-case keys every object literal inherits,
\* whose values are not strings.
CardTypeMap(value) ==
  CASE value = << "m", "c" >> -> << "M", "a", "s", "t", "e", "r", "c", "a", "r", "d" >>
    [] value = << "v", "i", "s", "a" >> -> << "V", "i", "s", "a" >>
    [] value = << "a", "m", "e", "x" >> -> << "A", "m", "e", "r", "i", "c", "a", "n", " ", "E", "x", "p", "r", "e", "s", "s" >>
    [] value = << "d", "i", "s", "c", "o", "v", "e", "r" >> -> << "D", "i", "s", "c", "o", "v", "e", "r" >>
    [] value = << "c", "o", "n", "s", "t", "r", "u", "c", "t", "o", "r" >> -> NotAString
    [] value = << "_", "_", "p", "r", "o", "t", "o", "_", "_" >> -> NotAString
    [] OTHER -> << >>

\* newField.value of the card-type field (line 1878):
\* cardTypeMap[field.value.toLowerCase()] || field.value || "Unknown".
CardTypeValue(value) ==
  IF CardTypeMap(LowerCaseOf(value)) # << >> THEN CardTypeMap(LowerCaseOf(value))
  ELSE IF value # << >> THEN value
  ELSE << "U", "n", "k", "n", "o", "w", "n" >>

\* field.title.toLowerCase().includes(word) (lines 1870-1911).
TitleIncludes(title, word) == IncludesString(LowerCaseOf(title), word)

\* /^[A-Z2-7]{16,32}$/i (line 1970).
IsPotentialTotpSeed(value) ==
  /\ Len(value) >= 16 /\ Len(value) <= 32
  /\ \A i \in 1..Len(value) :
       \/ \E k \in 1..26 : value[i] \in { UpperLetters[k], LowerLetters[k] }
       \/ value[i] \in { "2", "3", "4", "5", "6", "7" }

OtpAuthPrefix == << "o", "t", "p", "a", "u", "t", "h", ":", "/", "/", "t", "o", "t", "p", "/" >>

\* isValidTotpUri || isPotentialTotpSeed (lines 1969-1971).
IsTotpValue(value) == StartsWith(value, OtpAuthPrefix) \/ IsPotentialTotpSeed(value)

\* Variant: the two-digit year is kept as it is.
ExpiryValue_NoCentury(value) ==
  IF value = << >> THEN DefaultExpiry
  ELSE IF IsMonthSepYear(value, "/") THEN value
  ELSE IF IsMonthSepYear(value, "-") THEN ReplaceFirst(value, "-", "/")
  ELSE IF IsMMYY(value)
    THEN SubSeq(value, 1, 2) \o << "/" >> \o SubSeq(value, 3, 4)
  ELSE IF IsMonthSlashYY(value) THEN value
  ELSE DefaultExpiry

\* The expiry value (lines 1881-1901): expiryValue is field.value || "".
ExpiryValue(value) ==
  IF value = << >> THEN DefaultExpiry
  ELSE IF IsMonthSepYear(value, "/") THEN value
  ELSE IF IsMonthSepYear(value, "-") THEN ReplaceFirst(value, "-", "/")
  ELSE IF IsMMYY(value)
    THEN SubSeq(value, 1, 2) \o << "/", "2", "0" >> \o SubSeq(value, 3, 4)
  ELSE IF IsMonthSlashYY(value)
    THEN SubSeq(value, 1, 2) \o << "/", "2", "0" >> \o SubSeq(value, 4, 5)
  ELSE DefaultExpiry

\* The sub-fields of an address (lines 1956-1960, 2270-2274).
AddressParts == { "street", "city", "state", "zip", "country" }

\* x.p || "" for a property of details.content.
PartOrEmpty(content, p) == IF p \in DOMAIN content THEN content[p] ELSE << >>

AddressContent(content) == [p \in AddressParts |-> PartOrEmpty(content, p)]

\* The callback of itemData.fields.map in listVaultItems (lines 2264-2298).
ListedField(field) ==
  IF field.fieldType = "Address" /\ field.details.hasContent
    THEN [field EXCEPT !.details =
            [hasContent |-> TRUE, type |-> Undefined,
             content |-> AddressContent(field.details.content)]]
  ELSE IF field.fieldType = "SshKey" /\ field.details.hasContent
    THEN [field EXCEPT !.details =
            [hasContent |-> TRUE, type |-> Undefined,
             content |->
               [p \in { "privateKey", "publicKey", "fingerprint", "keyType" } |->
                  IF p = "privateKey"
                       /\ PartOrEmpty(field.details.content, p) = << >>
                    THEN field.value
                    ELSE PartOrEmpty(field.details.content, p)]]]
  ELSE IF field.fieldType = "Totp"
    THEN [field EXCEPT !.value =
            IF PartOrEmpty(field.details.content, "totp") # << >>
              THEN field.details.content.totp ELSE field.value]
  ELSE field

\* The built-in roles of a credit-card field (lines 1870, 1881-1882, 1903,
\* 1907, 1911).
IsTypeField(field) ==
  field.id = "type" \/ TitleIncludes(field.title, << "t", "y", "p", "e" >>)

IsExpiryField(field) ==
  \/ field.id = "expiry"
  \/ TitleIncludes(field.title, << "e", "x", "p", "i", "r", "y" >>)
  \/ TitleIncludes(field.title, << "e", "x", "p", "i", "r", "a", "t", "i", "o", "n" >>)

IsNumberField(field) ==
  \/ field.id \in { "number", "ccnum" }
  \/ TitleIncludes(field.title, << "n", "u", "m", "b", "e", "r" >>)

IsCvvField(field) ==
  field.id = "cvv" \/ TitleIncludes(field.title, << "v", "e", "r", "i", "f", "i", "c", "a", "t", "i", "o", "n" >>)

IsPinField(field) ==
  field.id = "pin" \/ TitleIncludes(field.title, << "p", "i", "n" >>)

\* The callback of fullItem.fields.map for a credit card (lines 1860-1920).
CreditCardField(field) ==
  LET id == IF field.id = "" THEN "unnamed" ELSE field.id
      isType == IsTypeField(field)
      isExpiry == IsExpiryField(field)
      isNumber == IsNumberField(field)
      isCvv == IsCvvField(field)
      isPin == IsPinField(field)
      t0 == IF field.fieldType = Undefined THEN "Text" ELSE field.fieldType
      t1 == IF isType THEN "CreditCardType" ELSE t0
      t2 == IF isExpiry THEN "MonthYear" ELSE t1
      t3 == IF isNumber THEN "CreditCardNumber" ELSE t2
      t4 == IF isCvv \/ isPin THEN "Concealed" ELSE t3
      v1 == IF isType THEN CardTypeValue(field.value) ELSE field.value
      v2 == IF isExpiry THEN ExpiryValue(field.value) ELSE v1
  IN  [id |-> id,
       title |-> IF field.title = << >> THEN << "u", "n", "n", "a", "m", "e", "d" >> ELSE field.title,
       fieldType |-> t4,
       value |-> v2,
       sectionId |-> IF field.sectionId \in { Undefined, "" }
                        /\ id \notin BuiltInFieldIds
                       THEN "add more" ELSE field.sectionId,
       details |-> NoDetails]

\* The callback of item.fields.map for the other categories (lines
\* 1928-1980).
OtherField(field) ==
  LET isAddress == field.fieldType = "Address" /\ field.details.hasContent
      isSshKey == field.fieldType = "SshKey" /\ field.details.hasContent
      totpValue == IF field.value # << >> THEN field.value
                   ELSE PartOrEmpty(field.details.content, "totp")
  IN
  [id |-> IF field.id = "" THEN "unnamed" ELSE field.id,
   title |-> IF field.title = << >> THEN << "u", "n", "n", "a", "m", "e", "d" >> ELSE field.title,
   fieldType |-> IF field.fieldType \notin KnownFieldTypes THEN "Text"
                 ELSE IF ~isAddress /\ ~isSshKey /\ field.fieldType = "Totp"
                         /\ ~IsTotpValue(totpValue)
                   THEN "Text"
                 ELSE field.fieldType,
   value |-> IF isAddress THEN << >>
             ELSE IF isSshKey
               THEN IF PartOrEmpty(field.details.content, "privateKey") # << >>
                      THEN field.details.content.privateKey ELSE field.value
             ELSE IF field.fieldType = "Totp" THEN totpValue
             ELSE field.value,
   sectionId |-> field.sectionId,
   details |-> IF isAddress
                 THEN [hasContent |-> TRUE, type |-> "Address",
                       content |-> AddressContent(field.details.content)]
                 ELSE NoDetails]

MapCreditCardFields(fields) == [i \in DOMAIN fields |-> CreditCardField(fields[i])]

MapOtherFields(fields) == [i \in DOMAIN fields |-> OtherField(fields[i])]

\* The files pushed to newItem.files (lines 2000-2016): those with a name
\* and a content, in the section they had or in "add more".
IsUsableFile(file) == file.name # ""

NewFile(file) ==
  [name |-> file.name,
   sectionId |-> IF file.sectionId \in { Undefined, "" }
                   THEN "add more" ELSE file.sectionId]

NewFiles(files) ==
  LET usable == SelectSeq(files, IsUsableFile) IN
  [i \in DOMAIN usable |-> NewFile(usable[i])]

\* Lines 2019-2025: a section is appended for every section a pushed file is
\* in and newItem.sections has not, in the order the files name them.
RECURSIVE AddFileSections(_, _, _)
AddFileSections(sections, files, i) ==
  IF i > Len(files) THEN sections
  ELSE AddFileSections(
         IF \E k \in DOMAIN sections : sections[k] = files[i].sectionId
           THEN sections ELSE Append(sections, files[i].sectionId),
         files, i + 1)

\* String.prototype.trim() === "" : only white space, or nothing.
IsBlank(s) == \A i \in 1..Len(s) : s[i] \in { " ", "\t", "\n" }

NotesPlaceholder == << "M", "i", "g", "r", "a", "t", "e", "d", " ", "S", "e", "c", "u", "r", "e", " ", "N", "o", "t", "e" >>

\* newItem.notes after lines 1824-1829.
FirstNotes(it) ==
  IF it.notes # << >> /\ ~IsBlank(it.notes) THEN it.notes
  ELSE IF it.category = "SecureNote" THEN NotesPlaceholder
  ELSE << >>

\* newItem as it stands at line 2042.  reread tells whether the second read
\* of a credit card (line 1859) succeeded; when it fails the catch of line
\* 1921 only logs and newItem has no fields.  A list that is absent is the
\* empty one, and notes that are absent are the empty string.
BuildNewItem(it, reread) ==
  LET files == NewFiles(it.files) IN
  [category |-> it.category,
   notes |-> IF Len(it.fields) = 0 /\ it.category = "SecureNote"
               THEN IF it.notes # << >> THEN it.notes ELSE NotesPlaceholder
               ELSE FirstNotes(it),
   fields |-> IF it.category = "CreditCard"
                THEN IF reread THEN MapCreditCardFields(it.fields) ELSE << >>
                ELSE MapOtherFields(it.fields),
   sections |-> AddFileSections(it.sections, files, 1),
   files |-> files]

\* The source items followed: items of the SDK whose fields and files are in
\* sections the item has.
ItemCategories == { "Login", "SecureNote", "CreditCard" }

SourceFields ==
  [id : { "type", "memo" }, title : { << "S", "h", "i", "p", "p", "i", "n", "g" >>, << "M", "e", "m", "o" >> },
   fieldType : { Undefined, "Text", "Totp", "Unsupported" },
   value : { << >>, OtpAuthPrefix \o << "x" >> },
   sectionId : { Undefined, "s1" }, details : { NoDetails }]

SourceFiles == [name : { "", "a.txt" }, sectionId : { Undefined, "s1" }]

SeqsUpTo(S, n) == UNION { [1..k -> S] : k \in 0..n }

SectionIdsOf(it) == { it.sections[k] : k \in DOMAIN it.sections }

IsConsistentItem(it) ==
  /\ \A i \in DOMAIN it.fields :
       it.fields[i].sectionId \in SectionIdsOf(it) \cup { Undefined }
  /\ \A i \in DOMAIN it.files :
       it.files[i].sectionId \in SectionIdsOf(it) \cup { Undefined }

SourceItems ==
  { it \in [category : ItemCategories,
            notes : { << >>, << " " >>, << "n" >>, << " ", "n" >> },
            fields : SeqsUpTo(SourceFields, MaxFields),
            sections : { << >>, << "s1" >> },
            files : SeqsUpTo(SourceFiles, MaxFiles)] : IsConsistentItem(it) }

InitItem ==
  /\ pc = "b_build" /\ mode = "item" /\ rt = RtIdle
  /\ item \in SourceItems /\ newItem = NoItem
  /\ srcField = NoField /\ newField = NoField
  /\ listing = << >>
  /\ pair = NoPair
  /\ destination = NoDestination
  /\ vaultManager = NoVaultManager
  /\ IdleServer

UnchangedServer ==
  /\ UNCHANGED << isMigrationCancelled, mode, rt, vaultTouched, itemsSeen,
                  totalVaults, vi, completedVaults, bulkResults, lastEvent,
                  streamEnded, response, customTemplateId, faults, item,
                  srcField, newField, logger, listing, pair, destination,
                  vaultManager >>
  /\ UnchangedVault

\* Lines 1817-2039: the loop body builds newItem from the item.
BuildItem ==
  /\ pc = "b_build"
  /\ \E reread \in BOOLEAN :
       /\ item.category # "CreditCard" => reread
       /\ newItem' = BuildNewItem(item, reread)
  /\ pc' = "b_create"
  /\ UnchangedServer

\* Line 2042: newItem is handed to destSDK.client.items.create.
PassItem ==
  /\ pc = "b_create"
  /\ pc' = "b_created"
  /\ UNCHANGED newItem
  /\ UnchangedServer

NextItem ==
  \/ BuildItem
  \/ PassItem

SpecItem == InitItem /\ [][NextItem]_vars

\* ===================================================================
\* One field through the map callbacks (lines 1860-1980, 2264-2298)
\* ===================================================================
\* The values an expiry field is followed with: every string of at most
\* MaxLen of these characters, and a few others.
ExpiryAlphabet == { "0", "2", "/", "-" }

ExpiryValues ==
  SeqsUpTo(ExpiryAlphabet, MaxLen)
    \cup { << "0", "2", "2", "5" >>, << "0", "2", "/", "2", "5" >>, << "1", "2", "-", "2", "0", "3", "0" >>, << "1", "2", "/", "2", "0", "3", "0" >>, << "F", "e", "b", " ", "2", "0", "2", "5" >>,
           << "2", "0", "2", "5", "-", "0", "2" >>, << "0", "2", "/", "2", "0", "2", "5", " " >>, << "1", "/", "2", "0", "2", "5" >> }

\* The values a one-time-code field is followed with: one character
\* repeated up to MaxSeedLen times, with at most one other character in it,
\* and strings that begin as an otpauth URI does.
TotpAlphabet == { "A", "b", "7", "1" }

Repeated(c, n) == [i \in 1..n |-> c]

TotpValues ==
  { Repeated(c, n) : c \in TotpAlphabet, n \in 0..MaxSeedLen }
    \cup { [Repeated(c, n) EXCEPT ![n] = d] :
             c \in { "A", "7" }, d \in TotpAlphabet, n \in 1..MaxSeedLen }
    \cup { [Repeated(c, n) EXCEPT ![1] = d] :
             c \in { "b" }, d \in TotpAlphabet, n \in 1..MaxSeedLen }
    \cup { OtpAuthPrefix, OtpAuthPrefix \o << "x" >>,
           SubSeq(OtpAuthPrefix, 1, Len(OtpAuthPrefix) - 1),
           << "x" >> \o OtpAuthPrefix,
           << "O", "T", "P", "A", "U", "T", "H", ":", "/", "/", "T", "O", "T", "P", "/", "x" >> }

\* The values a card-type field is followed with.
CardValues ==
  { << >>, << "m", "c" >>, << "M", "C" >>, << "V", "i", "s", "a" >>, << "a", "m", "e", "x" >>, << "A", "m", "E", "x" >>, << "D", "I", "S", "C", "O", "V", "E", "R" >>,
    << "J", "C", "B" >>, << "v", "i", "s", "a", " " >>, << "c", "o", "n", "s", "t", "r", "u", "c", "t", "o", "r" >> }

FieldIds ==
  { "", "type", "expiry", "number", "ccnum", "cvv", "pin", "cardholder", "memo" }

FieldTitles ==
  { << >>, << "T", "y", "p", "e" >>, << "E", "x", "p", "i", "r", "y", " ", "D", "a", "t", "e" >>, << "E", "X", "P", "I", "R", "A", "T", "I", "O", "N" >>, << "C", "a", "r", "d", " ", "N", "u", "m", "b", "e", "r" >>,
    << "V", "e", "r", "i", "f", "i", "c", "a", "t", "i", "o", "n", " ", "N", "u", "m", "b", "e", "r" >>, << "P", "I", "N" >>, << "S", "h", "i", "p", "p", "i", "n", "g" >>, << "S", "h", "i", "p", "p", "i", "n", "g", " ", "E", "x", "p", "i", "r", "y" >>, << "M", "e", "m", "o" >> }

FieldTypes == { Undefined, "Text", "Concealed", "Totp", "Address", "Unsupported" }

\* details.content of an address: each sub-field is absent, empty or filled.
AddressContents ==
  UNION { [S -> { << >>, << "x" >> }] : S \in SUBSET AddressParts }

FieldOf(id, title, fieldType, value, details) ==
  [id |-> id, title |-> title, fieldType |-> fieldType, value |-> value,
   sectionId |-> Undefined, details |-> details]

WithContent(content) == [hasContent |-> TRUE, type |-> Undefined, content |-> content]

\* The fields followed: fields read through the SDK, which have a title and
\* a string value.
SourceFieldInputs ==
  { FieldOf("expiry", << "V", "a", "l", "i", "d", " ", "t", "h", "r", "u" >>, "MonthYear", v, NoDetails) : v \in ExpiryValues }
    \cup { FieldOf("otp", << "C", "o", "d", "e" >>, "Totp", v, NoDetails) : v \in TotpValues }
    \cup { FieldOf("otp", << "C", "o", "d", "e" >>, "Totp", << >>, WithContent([p \in { "totp" } |-> v])) :
             v \in { << >>, Repeated("A", 16), << "1" >> } }
    \cup { FieldOf(id, title, t, v, NoDetails) :
             id \in FieldIds, title \in FieldTitles \ { << >> }, t \in FieldTypes,
             v \in CardValues }
    \cup { FieldOf("address", << "A", "d", "d", "r", "e", "s", "s" >>, "Address", v, WithContent(c)) :
             v \in { << >>, << "x" >> }, c \in AddressContents }
    \cup { FieldOf("address", << "A", "d", "d", "r", "e", "s", "s" >>, "Address", << "x" >>, NoDetails) }
    \cup { FieldOf("key", << "K", "e", "y" >>, "SshKey", v, WithContent([p \in S |-> << "k" >>])) :
             v \in { << >>, << "x" >> }, S \in SUBSET { "privateKey", "publicKey" } }

InitField ==
  /\ pc = "f_map" /\ mode = "field" /\ rt = RtIdle
  /\ srcField \in SourceFieldInputs /\ newField = NoField
  /\ listing = << >>
  /\ pair = NoPair
  /\ destination = NoDestination
  /\ vaultManager = NoVaultManager
  /\ item = NoItem /\ newItem = NoItem
  /\ IdleServer

UnchangedByField ==
  /\ UNCHANGED << isMigrationCancelled, mode, rt, vaultTouched, itemsSeen,
                  totalVaults, vi, completedVaults, bulkResults, lastEvent,
                  streamEnded, response, customTemplateId, faults, item,
                  newItem, srcField, logger, listing, pair, destination,
                  vaultManager >>
  /\ UnchangedVault

\* The field is one of a credit card: it is read again and mapped by the
\* callback of lines 1860-1920.
MapCreditCardField ==
  /\ pc = "f_map"
  /\ newField' = CreditCardField(srcField)
  /\ pc' = "f_cc"
  /\ UnchangedByField

\* The field is one of an item of another category: listVaultItems maps it
\* (lines 2264-2298), then the callback of lines 1928-1980.
MapOtherField ==
  /\ pc = "f_map"
  /\ newField' = OtherField(ListedField(srcField))
  /\ pc' = "f_other"
  /\ UnchangedByField

NextField ==
  \/ MapCreditCardField
  \/ MapOtherField

SpecField == InitField /\ [][NextField]_vars

\* ===================================================================
\* The LogManager and the requests that reach it (lines 574-758, 2129-2195)
\* ===================================================================
\* An entry holds its level and vault id (Null for none); the time stamp and
\* the message are left out.  vaultLogs maps the vaults that have entries to
\* their entries, failedItems is the number of failed items recorded.
LogLevels == { "INFO", "WARNING", "ERROR" }

\* A vault id that names a property every object inherits, such as
\* "constructor" or "__proto__": vaultLogs[vaultId] is then there without
\* having been put there, and it is no array (lines 593-597).
PrototypeKey == 2

\* LogManager.log (lines 585-607).  With a vault id that vaultLogs inherits
\* the push to the vault log (line 597) throws a TypeError: the entry is in
\* the global log by then (line 590) and the counts (lines 601-602) are not
\* reached.
Log(lm, level, vaultId) ==
  LET entry == [level |-> level, vaultId |-> vaultId] IN
  IF vaultId = PrototypeKey
    THEN [lm EXCEPT !.globalLog = Append(@, entry)]
    ELSE
  [lm EXCEPT
     !.globalLog = Append(@, entry),
     !.vaultLogs = IF vaultId = Null THEN @
                   ELSE IF vaultId \in DOMAIN @
                     THEN [@ EXCEPT ![vaultId] = Append(@, entry)]
                     ELSE [v \in DOMAIN @ \cup { vaultId } |->
                             IF v = vaultId THEN << entry >> ELSE @[v]],
     !.errorCount = IF level = "ERROR" THEN @ + 1 ELSE @,
     !.warningCount = IF level = "WARNING" THEN @ + 1 ELSE @]

\* LogManager.logFailedItem (lines 622-635).
LogFailedItem(lm, vaultId) ==
  Log([lm EXCEPT !.failedItems = @ + 1], "ERROR", vaultId)

\* LogManager.logVaultComplete (lines 640-649).
LogVaultComplete(lm, vaultId) ==
  [lm EXCEPT !.vaultSummaries = @ \cup { vaultId }]

\* LogManager.clear (lines 749-756).
Clear(lm) == NewLogManager

InitLog ==
  /\ pc = "l_idle" /\ mode = "log" /\ rt = RtIdle
  /\ IdleServer /\ IdleItem

UnchangedByLogButRun ==
  /\ UNCHANGED << isMigrationCancelled, mode, rt, vaultTouched, itemsSeen,
                  totalVaults, vi, completedVaults, bulkResults,
                  streamEnded, response, customTemplateId, faults, item,
                  newItem, srcField, newField, listing, pair,
                  destination,
                  vaultManager >>
  /\ UNCHANGED << srcSize, sourceItemCount, newVaultId, items, idx, category,
                  migrationResults, processedItems, successCount,
                  logEntryStatus, ret, thrown, lastProgress, destCreated,
                  lastTouched, cli >>

UnchangedByLog ==
  /\ UNCHANGED << lastEvent, failureCount >>
  /\ UnchangedByLogButRun

\* LogManager.getSummary (lines 664-672).
GetSummary(lm) ==
  [totalEntries |-> Len(lm.globalLog), errors |-> lm.errorCount,
   warnings |-> lm.warningCount,
   vaults |-> Cardinality(DOMAIN lm.vaultLogs),
   failedItems |-> lm.failedItems]

\* A bulk migration request is accepted and its run begins (lines
\* 1524-1557): the logger is the one of the module, with what it holds, and
\* gets the entry of line 1557.  failureCount is the sum of the failureCount
\* of the vaults of the run.
RunStarts ==
  /\ pc = "l_idle" /\ pc' = "l_run"
  /\ Len(logger.globalLog) < MaxLog
  /\ logger' = Log(logger, "INFO", Null)
  /\ failureCount' = 0 /\ lastEvent' = NoEvent
  /\ UnchangedByLogButRun

\* A step of the migration of a vault writes an entry: logger.info, warning
\* or error with the id of the vault.
RunLogs ==
  /\ pc = "l_run" /\ Len(logger.globalLog) < MaxLog
  /\ \E level \in LogLevels, vaultId \in { 1, PrototypeKey } :
       logger' = Log(logger, level, vaultId)
  /\ UNCHANGED pc /\ UnchangedByLog

\* The catch block of the item loop counts and records a failed item (lines
\* 2059-2063).
RunLogsFailedItem ==
  /\ pc = "l_run" /\ Len(logger.globalLog) < MaxLog
  /\ failureCount < MaxLog
  /\ failureCount' = failureCount + 1
  /\ \E vaultId \in { 1, PrototypeKey } :
       logger' = LogFailedItem(logger, vaultId)
  /\ UNCHANGED << pc, lastEvent >> /\ UnchangedByLogButRun

\* The end of a vault is recorded (line 2100).
RunLogsVaultComplete ==
  /\ pc = "l_run" /\ 1 \notin logger.vaultSummaries
  /\ logger' = LogVaultComplete(logger, 1)
  /\ UNCHANGED pc /\ UnchangedByLog

\* The run ends (lines 1670-1693): the summary is taken, the last entry is
\* written and the finished event carries the summary.
RunEnds ==
  /\ pc = "l_run" /\ pc' = "l_idle"
  /\ Len(logger.globalLog) < MaxLog
  /\ LET summary == GetSummary(logger) IN
       lastEvent' = [kind |-> "summary", finished |-> TRUE,
                     summary |-> summary]
  /\ logger' = Log(logger, "INFO", Null)
  /\ UNCHANGED failureCount /\ UnchangedByLogButRun

\* POST /migration/clear-logs (lines 2191-2195), served whenever the run is
\* suspended in an await, and between runs.
ClearLogs ==
  /\ pc \in { "l_idle", "l_run" }
  /\ logger # NewLogManager
  /\ logger' = Clear(logger)
  /\ UNCHANGED pc /\ UnchangedByLog

\* GET /migration/download-log (lines 2129-2158) writes an entry itself.
DownloadLog ==
  /\ pc \in { "l_idle", "l_run" } /\ Len(logger.globalLog) < MaxLog
  /\ logger' = Log(logger, "INFO", Null)
  /\ UNCHANGED pc /\ UnchangedByLog

NextLog ==
  \/ RunStarts
  \/ RunLogs
  \/ RunLogsFailedItem
  \/ RunLogsVaultComplete
  \/ RunEnds
  \/ ClearLogs
  \/ DownloadLog

SpecLog == InitLog /\ [][NextLog]_vars

\* ===================================================================
\* OnePasswordSDK.listVaultItems (lines 2235-2347)
\* ===================================================================
\* listing holds one task per item summary, in the order of items.list: the
\* number of files and the document the full item turns out to have, the
\* stage the task is at, and the file reads it still waits for.  The
\* attempts retryWithBackoff repeats for one read follow one another and
\* are one read here.
ListTask(files, document) ==
  [files |-> files, document |-> document, stage |-> "queued", pending |-> 0]

ListInputs ==
  UNION { [1..n -> { ListTask(f, d) : f \in 0..MaxItemFiles, d \in BOOLEAN }] :
            n \in 0..MaxItems }

IsActive(task) == task.stage \in { "get", "files", "document" }

ActiveTasks == { i \in DOMAIN listing : IsActive(listing[i]) }

\* The remote reads a task has in flight: items.get, the reads of its
\* files, or the read of its document.
ReadsOf(task) ==
  CASE task.stage = "get" -> 1
    [] task.stage = "files" -> task.pending
    [] task.stage = "document" -> 1
    [] OTHER -> 0

RECURSIVE SumPending(_)
SumPending(S) ==
  IF S = {} THEN 0
  ELSE LET i == CHOOSE j \in S : TRUE IN
       ReadsOf(listing[i]) + SumPending(S \ { i })

\* The remote reads of the listing that are in flight.
InFlight == SumPending(DOMAIN listing)

InitList ==
  /\ pc = "ls_run" /\ mode = "list" /\ rt = RtIdle
  /\ listing \in ListInputs
  /\ pair = NoPair
  /\ destination = NoDestination
  /\ vaultManager = NoVaultManager
  /\ item = NoItem /\ newItem = NoItem
  /\ srcField = NoField /\ newField = NoField
  /\ IdleServer

UnchangedByList ==
  /\ UNCHANGED << isMigrationCancelled, mode, rt, vaultTouched, itemsSeen,
                  totalVaults, vi, completedVaults, bulkResults, lastEvent,
                  streamEnded, response, customTemplateId, faults, item,
                  newItem, srcField, newField, logger, pair,
                  destination,
                  vaultManager >>
  /\ UnchangedVault

\* p-limit (line 2247): the oldest queued task starts when fewer than
\* ITEM_CONCURRENCY_LIMIT tasks are running; it begins with items.get (line
\* 2251).
TaskStarts ==
  /\ pc = "ls_run"
  /\ Cardinality(ActiveTasks) < ITEM_CONCURRENCY_LIMIT
  /\ \E i \in DOMAIN listing :
       /\ listing[i].stage = "queued"
       /\ \A j \in 1..(i - 1) : listing[j].stage # "queued"
       /\ listing' = [listing EXCEPT ![i].stage = "get"]
  /\ UNCHANGED pc /\ UnchangedByList

\* items.get ends.  On failure the task ends with null (line 2334).
\* Otherwise fullItem.files.map starts the read of every file at once (lines
\* 2303-2316); without files the document is next (line 2320).
GetEnds ==
  /\ pc = "ls_run"
  /\ \E i \in DOMAIN listing, ok \in BOOLEAN :
       /\ listing[i].stage = "get"
       /\ listing' =
            [listing EXCEPT ![i] =
               IF ~ok THEN [@ EXCEPT !.stage = "failed"]
               ELSE IF @.files > 0
                 THEN [@ EXCEPT !.stage = "files", !.pending = listing[i].files]
               ELSE IF @.document THEN [@ EXCEPT !.stage = "document"]
               ELSE [@ EXCEPT !.stage = "done"]]
  /\ UNCHANGED pc /\ UnchangedByList

\* One of the file reads ends, well or not (lines 2305-2315); Promise.all
\* (line 2317) resolves with the last of them.
FileReadEnds ==
  /\ pc = "ls_run"
  /\ \E i \in DOMAIN listing :
       /\ listing[i].stage = "files"
       /\ listing' =
            [listing EXCEPT ![i] =
               IF @.pending > 1 THEN [@ EXCEPT !.pending = @ - 1]
               ELSE IF @.document
                 THEN [@ EXCEPT !.pending = 0, !.stage = "document"]
               ELSE [@ EXCEPT !.pending = 0, !.stage = "done"]]
  /\ UNCHANGED pc /\ UnchangedByList

\* The read of the document ends, well or not (lines 2320-2329).
DocumentReadEnds ==
  /\ pc = "ls_run"
  /\ \E i \in DOMAIN listing :
       /\ listing[i].stage = "document"
       /\ listing' = [listing EXCEPT ![i].stage = "done"]
  /\ UNCHANGED pc /\ UnchangedByList

\* Promise.all(itemPromises) resolves (line 2339).
ListReturns ==
  /\ pc = "ls_run"
  /\ \A i \in DOMAIN listing : listing[i].stage \in { "done", "failed" }
  /\ pc' = "ls_done"
  /\ UNCHANGED listing /\ UnchangedByList

NextList ==
  \/ TaskStarts
  \/ GetEnds
  \/ FileReadEnds
  \/ DocumentReadEnds
  \/ ListReturns

SpecList == InitList /\ [][NextList]_vars

\* ===================================================================
\* migrateVault (lines 1072-1472) and migrateVaultWithProgress (lines
\* 1711-2127) side by side: one call of each meets the same vault, the same
\* item list, the same remote outcomes and the same answers of isCancelled().
\* onProgress is called without an await, so the two calls have the same
\* suspension points and are followed in step.
\* ===================================================================
\* logger.info / warning / error(vaultId, text): level, text and the values
\* interpolated into it.
LogEntry(level, text, args) == [level |-> level, text |-> text, args |-> args]

\* A remote call (an SDK call or an `op` command) and the item it is for.
RemoteCall(op, i) == [op |-> op, arg |-> i]

\* n remote calls of the same kind.
Calls(op, i, n) == [k \in 1..n |-> RemoteCall(op, i)]

\* retryWithBackoff over the outcomes its attempts meet, in order.
RECURSIVE RetryRun(_, _)
RetryRun(r, outcomes) ==
  IF r.status # "running" \/ outcomes = << >>
    THEN r
    ELSE RetryRun(RetryAttempt(r, Head(outcomes)), Tail(outcomes))

\* Variant: the callback throws.
ProgressCallback_Throws(itemsProcessed, totalItems, succ, fail) ==
  [threw |-> OtherMsg,
   written |-> [kind |-> "migrating", itemsProcessed |-> itemsProcessed,
                totalItems |-> totalItems, successCount |-> succ,
                failureCount |-> fail]]

\* progressCallback of the bulk handler (lines 1605-1622), the only callback
\* migrateVaultWithProgress is given: it writes one event to the response
\* and returns.
ProgressCallback(itemsProcessed, totalItems, succ, fail) ==
  [threw |-> NoMsg,
   written |-> [kind |-> "migrating", itemsProcessed |-> itemsProcessed,
                totalItems |-> totalItems, successCount |-> succ,
                failureCount |-> fail]]

\* The three blocks migrateVaultWithProgress has and migrateVault has not
\* (lines 1809-1812, 2055-2058, 2079-2082).
ReportProgress(c, withProgress) ==
  IF withProgress /\ ShouldReport(c.processedItems, c.total)
    THEN LET r == ProgressCallback(c.processedItems, c.total,
                                   c.successCount, c.failureCount)
         IN  [c EXCEPT !.reported = Append(@, r.written), !.raised = r.threw]
    ELSE c

\* The first lines of either function (lines 1073-1085, 1712-1724).
CallEnter ==
  [NoCall EXCEPT !.at = "count", !.logEntryStatus = "in-progress",
                 !.logs = << LogEntry("info", << "Starting migration" >>,
                                      << >>) >>]

\* The outer catch (lines 1466-1471, 2121-2126).
CallThrew(c, message) ==
  [c EXCEPT !.logs = Append(@, LogEntry("error",
                                        Wrap("Vault migration failed", message),
                                        << >>)),
            !.logEntryStatus = "failed", !.raised = NoMsg,
            !.thrown = message, !.at = "threw"]

\* Lines 1086-1088, 1725-1727.
CallCount(c, n, ok) ==
  [c EXCEPT !.calls = Append(@, RemoteCall("getVaultItemCount", 0)),
            !.sourceItemCount = GetVaultItemCount(n, ok),
            !.logs = Append(@, LogEntry("info", << "Source item count" >>,
                                        << GetVaultItemCount(n, ok) >>)),
            !.at = "create"]

\* Lines 1090-1103, 1729-1742.
CallCreateVault(c, outcome) ==
  LET c1 == [c EXCEPT !.calls = Append(@, RemoteCall("op vault create", 0))]
  IN  IF outcome = NoMsg
        THEN [c1 EXCEPT !.newVaultId = 1,
                        !.logs = Append(@, LogEntry("info",
                                   << "Created destination vault" >>, << 1 >>)),
                        !.at = "list"]
        ELSE CallThrew(
               [c1 EXCEPT !.logs = Append(@, LogEntry("error",
                            Wrap("Failed to create destination vault", outcome),
                            << >>))],
               Wrap("Vault creation failed", outcome))

\* Lines 1105-1113, 1744-1752.
CallList(c, m, outcome) ==
  LET c1 == [c EXCEPT !.calls = Append(@, RemoteCall("listVaultItems", 0))]
  IN  IF outcome = NoMsg
        THEN [c1 EXCEPT !.total = m, !.idx = 1,
                        !.logs = Append(@, LogEntry("info",
                                   << "Found items to migrate" >>, << m >>)),
                        !.at = "loop"]
        ELSE CallThrew(
               [c1 EXCEPT !.logs = Append(@, LogEntry("error",
                            Wrap("Failed to list items", outcome), << >>))],
               Wrap("Item listing failed", outcome))

\* The catch block of the loop body (lines 1420-1428, 2060-2083); an error
\* of onProgress in it leaves the loop for the outer catch.
CallItemFailed(c, withProgress, message) ==
  LET c1 == [c EXCEPT
               !.processedItems = @ + 1, !.failureCount = @ + 1,
               !.logs = Append(@, LogEntry("error",
                                           Wrap("Item failed", message),
                                           << c.idx >>)),
               !.migrationResults =
                  Append(@, [id |-> c.idx, success |-> FALSE,
                             error |-> message,
                             progress |-> << (c.processedItems + 1) * 100,
                                             c.total >>])]
      c2 == ReportProgress(c1, withProgress)
  IN  IF c2.raised # NoMsg
        THEN CallThrew(c2, c2.raised)
        ELSE [c2 EXCEPT !.idx = @ + 1]

\* The success branch of the loop body (lines 1798-1814, 2044-2058); it is
\* inside the try block, so an error of onProgress reaches the catch block.
CallItemSucceeded(c, withProgress, text) ==
  LET c1 == [c EXCEPT
               !.processedItems = @ + 1, !.successCount = @ + 1,
               !.migrationResults =
                  Append(@, [id |-> c.idx, success |-> TRUE, error |-> NoMsg,
                             progress |-> << (c.processedItems + 1) * 100,
                                             c.total >>]),
               !.logs = Append(@, LogEntry("info", << text >>, << c.idx >>))]
      c2 == ReportProgress(c1, withProgress)
  IN  IF c2.raised # NoMsg
        THEN CallItemFailed([c2 EXCEPT !.raised = NoMsg], withProgress,
                            c2.raised)
        ELSE [c2 EXCEPT !.idx = @ + 1]

\* The re-read of a document or credit-card item (lines 1831-1847,
\* 1855-1924): items.get, for a valid document files.read, each through
\* retryWithBackoff; an error is logged as a warning and the item goes on.
CallReread(c, it) ==
  LET g  == RetryRun(RetryInit(DefaultMaxRetries, DefaultBaseDelay), it.get)
      c1 == [c EXCEPT !.calls = @ \o Calls("items.get", c.idx, g.calls)]
      text == IF it.category = "Document"
                THEN "Document handling failed"
                ELSE "Credit card field processing failed"
  IN  IF g.status = "thrown"
        THEN [c1 EXCEPT !.logs = Append(@, LogEntry("warning",
                                   Wrap(text, g.err.message), << c.idx >>))]
      ELSE IF it.category = "Document"
        THEN LET f  == RetryRun(RetryInit(DefaultMaxRetries, DefaultBaseDelay),
                                it.read)
                 c2 == [c1 EXCEPT !.calls = @ \o Calls("items.files.read",
                                                       c.idx, f.calls)]
             IN  IF f.status = "thrown"
                   THEN [c2 EXCEPT !.logs = Append(@, LogEntry("warning",
                                      Wrap(text, f.err.message), << c.idx >>))]
                   ELSE c2
      ELSE c1

\* One turn of the loop over the items (lines 1121-1429, 1760-2084): the
\* cancellation check, then the item through the CLI bridge or the SDK.
CallItem(c, withProgress, cancelled, it) ==
  IF cancelled
    THEN [c EXCEPT
            !.logEntryStatus = "cancelled",
            !.logs = Append(@, LogEntry("info",
                                        << "Migration cancelled by user" >>,
                                        << >>)),
            !.ret = [kind |-> "result", itemsLength |-> c.total,
                     migrationResults |-> c.migrationResults,
                     sourceItemCount |-> c.sourceItemCount,
                     destItemCount |-> Null,
                     successCount |-> c.successCount,
                     failureCount |-> c.failureCount],
            !.at = "returned"]
  ELSE
    LET c0 == [c EXCEPT !.logs = Append(@, LogEntry("info",
                                  << "Item category", it.category >>,
                                  << c.idx >>))]
    IN  IF IsCustomItem(it.category)
          THEN LET c1 == [c0 EXCEPT
                            !.logs = Append(@, LogEntry("info",
                                       << "Detected CUSTOM item" >>,
                                       << c.idx >>)),
                            !.calls = Append(@, RemoteCall(
                                        "createCustomItemViaCLI", c.idx))]
                   r  == CreateCustomItemViaCLI("tpl", it.bridge)
               IN  IF r.error = NoMsg
                     THEN CallItemSucceeded(c1, withProgress,
                            "Successfully migrated CUSTOM item via CLI")
                     ELSE CallItemFailed(c1, withProgress, r.error)
          ELSE LET c1 == IF NeedsFullItem(it.category)
                           THEN CallReread(c0, it) ELSE c0
                   r  == RetryRun(RetryInit(DefaultMaxRetries,
                                            DefaultBaseDelay), it.create)
                   c2 == [c1 EXCEPT !.calls = @ \o Calls("items.create",
                                                         c.idx, r.calls)]
               IN  IF r.status = "thrown"
                     THEN CallItemFailed(c2, withProgress, r.err.message)
                     ELSE CallItemSucceeded(c2, withProgress,
                                            "Successfully migrated item")

\* After the loop (lines 1431-1464, 2086-2119).
CallRecount(c, n, ok) ==
  LET destItemCount == GetVaultItemCount(n, ok)
      matches == c.sourceItemCount = destItemCount /\ c.failureCount = 0
  IN  [c EXCEPT
         !.calls = Append(@, RemoteCall("getVaultItemCount", 1)),
         !.logEntryStatus = "completed",
         !.logs = @ \o
           << LogEntry("info", << "Destination item count" >>,
                       << destItemCount >>),
              LogEntry("info", << "Migration completed" >>,
                       << c.successCount, c.failureCount >>),
              LogEntry("summary", << "vault complete" >>,
                       << c.sourceItemCount, destItemCount, c.successCount,
                          c.failureCount >>),
              IF matches
                THEN LogEntry("info", << "Successfully migrated all items" >>,
                              << c.sourceItemCount >>)
                ELSE LogEntry("warning", << "Item count mismatch" >>,
                              << c.sourceItemCount, destItemCount,
                                 c.failureCount >>) >>,
         !.ret = [kind |-> "result", itemsLength |-> c.total,
                  migrationResults |-> c.migrationResults,
                  sourceItemCount |-> c.sourceItemCount,
                  destItemCount |-> destItemCount,
                  successCount |-> c.successCount,
                  failureCount |-> c.failureCount],
         !.at = "returned"]

\* What the attempts of one retryWithBackoff call meet.
AttemptOutcomes ==
  { << NoMsg >>, << RateLimitMsg, NoMsg >>, << OtherMsg >> }

\* What createCustomItemViaCLI meets for an item: everything works, or
\* `op item create` fails.
PairBridgeEnvs ==
  { e \in BridgeEnvs : /\ e.get = NoMsg /\ e.templates = "found"
                       /\ e.write /\ e.unlink
                       /\ e.create \in { NoMsg, OtherMsg } }

WorkingBridge == CHOOSE e \in PairBridgeEnvs : e.create = NoMsg

\* The items the pair of calls is run on: category and remote outcomes.  The
\* re-read of a credit-card item fails, that of a document gets the item and
\* fails to read its file.
PairItems ==
  [category : { "Login" }, get : { << NoMsg >> }, read : { << NoMsg >> },
   create : AttemptOutcomes, bridge : { WorkingBridge }]
  \cup
  [category : { "CreditCard" }, get : { << OtherMsg >> },
   read : { << NoMsg >> }, create : { << NoMsg >> },
   bridge : { WorkingBridge }]
  \cup
  [category : { "Document" }, get : { << NoMsg >> },
   read : { << OtherMsg >> }, create : { << NoMsg >> },
   bridge : { WorkingBridge }]
  \cup
  [category : { "Unsupported" }, get : { << NoMsg >> },
   read : { << NoMsg >> }, create : { << NoMsg >> }, bridge : PairBridgeEnvs]

InitPair ==
  /\ pc = "p_idle" /\ mode = "pair" /\ rt = RtIdle
  /\ pair = NoPair
  /\ destination = NoDestination
  /\ vaultManager = NoVaultManager
  /\ listing = << >>
  /\ item = NoItem /\ newItem = NoItem
  /\ srcField = NoField /\ newField = NoField
  /\ IdleServer

UnchangedByPair ==
  /\ UNCHANGED << isMigrationCancelled, mode, rt, vaultTouched, itemsSeen,
                  totalVaults, vi, completedVaults, bulkResults, lastEvent,
                  streamEnded, response, customTemplateId, faults, item,
                  newItem, srcField, newField, logger, listing,
                  destination,
                  vaultManager >>
  /\ UnchangedVault

\* Both calls take the step they are both at, migrateVault to the state
\* plain and migrateVaultWithProgress to the state progress; a call that has
\* left the position stays where it is.
Advance(at, plain, progress) ==
  /\ pc = "p_run"
  /\ pair.plain.at = at \/ pair.progress.at = at
  /\ pair' = [plain    |-> IF pair.plain.at = at THEN plain ELSE pair.plain,
              progress |-> IF pair.progress.at = at
                             THEN progress ELSE pair.progress]
  /\ pc' = pc
  /\ UnchangedByPair

\* The two functions are called with the same arguments.
PairStarts ==
  /\ pc = "p_idle"
  /\ pair' = [plain |-> CallEnter, progress |-> CallEnter]
  /\ pc' = "p_run"
  /\ UnchangedByPair

PairCount ==
  \E n \in 0..MaxItems, ok \in BOOLEAN :
    Advance("count", CallCount(pair.plain, n, ok),
                     CallCount(pair.progress, n, ok))

PairCreateVault ==
  \E outcome \in { NoMsg, OtherMsg } :
    Advance("create", CallCreateVault(pair.plain, outcome),
                      CallCreateVault(pair.progress, outcome))

PairList ==
  \E m \in 0..MaxItems, outcome \in { NoMsg, OtherMsg } :
    /\ outcome # NoMsg => m = 0
    /\ Advance("list", CallList(pair.plain, m, outcome),
                       CallList(pair.progress, m, outcome))

\* The loop has an item left (line 1760).
HasNext(c) == c.at = "loop" /\ c.idx <= c.total

\* The loop is over.
LoopOver(c) == c.at = "loop" /\ c.idx > c.total

\* isCancelled() answers both calls alike at the same check.
PairItem ==
  \E cancelled \in BOOLEAN, it \in PairItems :
    /\ cancelled => it = CHOOSE x \in PairItems : TRUE
    /\ HasNext(pair.plain) \/ HasNext(pair.progress)
    /\ Advance("loop",
               IF HasNext(pair.plain)
                 THEN CallItem(pair.plain, FALSE, cancelled, it)
                 ELSE pair.plain,
               IF HasNext(pair.progress)
                 THEN CallItem(pair.progress, TRUE, cancelled, it)
                 ELSE pair.progress)

PairRecount ==
  \E n \in 0..MaxItems, ok \in BOOLEAN :
    /\ LoopOver(pair.plain) \/ LoopOver(pair.progress)
    /\ Advance("loop",
               IF LoopOver(pair.plain)
                 THEN CallRecount(pair.plain, n, ok) ELSE pair.plain,
               IF LoopOver(pair.progress)
                 THEN CallRecount(pair.progress, n, ok) ELSE pair.progress)

PairEnds ==
  /\ pc = "p_run"
  /\ pair.plain.at \in { "returned", "threw" }
  /\ pair.progress.at \in { "returned", "threw" }
  /\ pc' = "p_done"
  /\ UNCHANGED << pair, destination,
                  vaultManager >>
  /\ UnchangedByPair

NextPair ==
  \/ PairStarts
  \/ PairCount
  \/ PairCreateVault
  \/ PairList
  \/ PairItem
  \/ PairRecount
  \/ PairEnds

SpecPair == InitPair /\ [][NextPair]_vars

\* ===================================================================
\* The vault manager (src/sdk-items/demo-vault-management/server.js):
\* GET /api/auth and GET /api/groups over the module variables opClient,
\* selectedAccount and accountGroups.
\* ===================================================================
MaxAuths == 2

Accounts == { "acme", "home" }

Recovery == << "r", "e", "c", "o", "v", "e", "r", "y" >>

\* An entry of the output of `op group list --format json`; a name that is
\* absent or empty is << >>.
Group(id, name) == [id |-> id, name |-> name, state |-> "ACTIVE"]

\* The outputs of `op group list` that are followed: no group, the recovery
\* group in several letter cases, groups with other names, some close to
\* it, and a group without a name.
GroupListings ==
  { << >>,
    << Group(1, Recovery) >>,
    << Group(1, << "r", "E", "c", "o", "V", "e", "r", "Y" >>),
       Group(2, << "O", "w", "n", "e", "r", "s" >>) >>,
    << Group(1, << "O", "w", "n", "e", "r", "s" >>),
       Group(2, << "R", "e", "c", "o", "v", "e", "r" >>) >>,
    << Group(1, << >>),
       Group(2, << " ", "r", "e", "c", "o", "v", "e", "r", "y" >>) >>,
    << Group(1, << "R", "E", "C", "O", "V", "E", "R", "Y" >>),
       Group(2, << "r", "e", "c", "o", "v", "e", "r", "y", "2" >>),
       Group(3, << "R", "e", "c", "o", "v", "e", "r", "y" >>) >> }

\* Variant: the name is compared as it is.
KeepsGroup_CaseSensitive(g) == g.name # << >> /\ g.name # Recovery

\* g => g.name && g.name.toLowerCase() !== 'recovery' (line 108).
KeepsGroup(g) == g.name # << >> /\ LowerCaseOf(g.name) # Recovery

\* allGroups.filter(...).map(g => ({ id: g.id, name: g.name })) (lines
\* 107-109).
FilterGroups(allGroups) ==
  LET kept == SelectSeq(allGroups, KeepsGroup)
  IN  [i \in 1..Len(kept) |-> [id |-> kept[i].id, name |-> kept[i].name]]

\* Whether the account is signed in: op signin, and when it throws, op
\* account get (lines 86-93).
SignedIn(signin, accountGet) == signin \/ accountGet

\* The module variables as they are, kept by a request for comparison.
Snapshot(account, step, failedAt, vm) ==
  [step |-> step, account |-> account, failedAt |-> failedAt,
   opClient |-> vm.opClient, selectedAccount |-> vm.selectedAccount,
   accountGroups |-> vm.accountGroups]

InitAuth ==
  /\ pc = "a_run" /\ mode = "auth" /\ rt = RtIdle
  /\ vaultManager = NoVaultManager
  /\ pair = NoPair /\ destination = NoDestination
  /\ listing = << >>
  /\ item = NoItem /\ newItem = NoItem
  /\ srcField = NoField /\ newField = NoField
  /\ IdleServer

UnchangedByAuth ==
  /\ UNCHANGED << isMigrationCancelled, pc, mode, rt, vaultTouched, itemsSeen,
                  totalVaults, vi, completedVaults, bulkResults, lastEvent,
                  streamEnded, response, customTemplateId, faults, item,
                  newItem, srcField, newField, logger, listing, pair,
                  destination >>
  /\ UnchangedVault

\* GET /api/auth without an account (lines 68-73): an error event, nothing
\* else.
AuthWithoutAccount ==
  /\ pc = "a_run" /\ vaultManager.attempts < MaxAuths
  /\ vaultManager' =
       [vaultManager EXCEPT
          !.attempts = @ + 1,
          !.ended = Snapshot("null", "error", "account", vaultManager)]
  /\ UnchangedByAuth

\* GET /api/auth up to its await (lines 81-116): signin, then the group
\* listing and its filter, all synchronous.  An error of a step is caught at
\* line 121 and sent as an error event.
AuthBegins ==
  /\ pc = "a_run" /\ vaultManager.attempts < MaxAuths
  /\ \E accountName \in Accounts, signin \in BOOLEAN, accountGet \in BOOLEAN,
        groupsOk \in BOOLEAN, allGroups \in GroupListings :
       LET before == [vaultManager EXCEPT !.attempts = @ + 1] IN
       vaultManager' =
         IF ~SignedIn(signin, accountGet)
           THEN [before EXCEPT
                   !.ended = Snapshot(accountName, "error", "signin",
                                      vaultManager)]
         ELSE IF ~groupsOk
           THEN [before EXCEPT
                   !.ended = Snapshot(accountName, "error", "groups",
                                      vaultManager)]
         ELSE [before EXCEPT
                 !.accountGroups = FilterGroups(allGroups),
                 !.groupsOf = accountName,
                 !.listed = allGroups,
                 !.pending = @ \cup { Snapshot(accountName, "sdk", "none",
                                               vaultManager) }]
  /\ UnchangedByAuth

\* The end of await initializeClient(accountName) (lines 27-45, 116-119):
\* sdk.createClient resolved, and opClient and selectedAccount are set, or
\* it rejected and the error event is sent.
AuthSdkEnds ==
  /\ pc = "a_run"
  /\ \E p \in vaultManager.pending, ok \in BOOLEAN :
       vaultManager' =
         IF ok
           THEN [vaultManager EXCEPT
                   !.opClient = p.account, !.selectedAccount = p.account,
                   !.pending = @ \ { p },
                   !.ended = [p EXCEPT !.step = "done"]]
           ELSE [vaultManager EXCEPT
                   !.pending = @ \ { p },
                   !.ended = [p EXCEPT !.step = "error", !.failedAt = "sdk"]]
  /\ UnchangedByAuth

\* GET /api/groups (lines 307-309).
GetGroups ==
  /\ pc = "a_run"
  /\ vaultManager' =
       [vaultManager EXCEPT !.groupsResponse = vaultManager.accountGroups]
  /\ UnchangedByAuth

NextAuth ==
  \/ AuthWithoutAccount
  \/ AuthBegins
  \/ AuthSdkEnds
  \/ GetGroups

SpecAuth == InitAuth /\ [][NextAuth]_vars

\* ===================================================================
\* The permission dialog of the vault manager page (src/unnamed/part_002,
\* lines 496-554): the checkboxes of the permissions, one per key of
\* permissionDeps.
\* ===================================================================
\* permissionDeps (lines 497-511).
PermissionDeps ==
  [p \in { "perm-view-items", "perm-create-items", "perm-view-passwords",
           "perm-edit-items", "perm-archive-items", "perm-delete-items",
           "perm-view-history", "perm-import-items", "perm-export-items",
           "perm-copy-share", "perm-move-items", "perm-print-items",
           "perm-manage-vault" } |->
     CASE p = "perm-view-items" -> { }
       [] p = "perm-create-items" -> { "perm-view-items" }
       [] p = "perm-view-passwords" -> { "perm-view-items" }
       [] p = "perm-edit-items" -> { "perm-view-items", "perm-view-passwords" }
       [] p = "perm-archive-items" ->
            { "perm-view-items", "perm-edit-items", "perm-view-passwords" }
       [] p = "perm-delete-items" ->
            { "perm-view-items", "perm-edit-items", "perm-view-passwords" }
       [] p = "perm-view-history" ->
            { "perm-view-items", "perm-view-passwords" }
       [] p = "perm-import-items" ->
            { "perm-view-items", "perm-create-items" }
       [] p = "perm-export-items" ->
            { "perm-view-items", "perm-view-history", "perm-view-passwords" }
       [] p = "perm-copy-share" ->
            { "perm-view-items", "perm-view-history", "perm-view-passwords" }
       [] p = "perm-move-items" ->
            { "perm-view-items", "perm-edit-items", "perm-delete-items",
              "perm-view-history", "perm-view-passwords", "perm-copy-share" }
       [] p = "perm-print-items" ->
            { "perm-view-items", "perm-view-passwords", "perm-view-history" }
       [] p = "perm-manage-vault" -> { }]

\* The checkboxes of the dialog.
PermissionIds == DOMAIN PermissionDeps

\* Variant: unchecking a permission leaves the others alone.
HandlePermissionChange_ChecksOnly(checked, permId) ==
  IF permId \in checked
    THEN checked \cup PermissionDeps[permId]
    ELSE checked

\* handlePermissionChange (lines 513-537), on the checkboxes that are
\* checked: a checked permId checks its dependencies, an unchecked one
\* unchecks every permission whose dependencies include it.
HandlePermissionChange(checked, permId) ==
  IF permId \in checked
    THEN checked \cup PermissionDeps[permId]
    ELSE checked \ { other \in PermissionIds : permId \in PermissionDeps[other] }

\* togglePermission (lines 548-554): the checkbox is flipped, then
\* handlePermissionChange runs.
TogglePermissionOf(checked, permId) ==
  HandlePermissionChange(IF permId \in checked THEN checked \ { permId }
                                               ELSE checked \cup { permId },
                         permId)

InitPerm ==
  /\ pc = "perm" /\ mode = "perm" /\ rt = RtIdle
  /\ vaultManager = NoVaultManager
  /\ pair = NoPair /\ destination = NoDestination
  /\ listing = << >>
  /\ item = NoItem /\ newItem = NoItem
  /\ srcField = NoField /\ newField = NoField
  /\ IdleServer

\* A click on a permission of the dialog.
TogglePermission ==
  /\ pc = "perm"
  /\ \E permId \in PermissionIds :
       vaultManager' =
         [vaultManager EXCEPT !.checked = TogglePermissionOf(@, permId)]
  /\ UnchangedByAuth

NextPerm == TogglePermission

SpecPerm == InitPerm /\ [][NextPerm]_vars

\* ===================================================================
\* Properties
\* ===================================================================
Last(seq) == seq[Len(seq)]

\* The transient class as the specification words it.
TransientClass(message) ==
  \E i \in 1..Len(message) : message[i] \in { "rate limit", "data conflict" }

\* C1: when the loop over the items finds the cancellation flag set with k
\* items processed (k < n), the vault migration returns at once with exactly
\* the results of the first k items, and no remote call has been or is
\* issued for an item after the k-th.
C1_CancelStopsItems ==
  /\ [][ (pc = "i_check" /\ idx <= Len(items) /\ isMigrationCancelled
          /\ pc' # pc)
         => /\ pc' = "v_return"
            /\ ret'.migrationResults = migrationResults
            /\ Len(ret'.migrationResults) = idx - 1
            /\ \A j \in 1..(idx - 1) : ret'.migrationResults[j].id = items[j]
            /\ lastTouched' = lastTouched
            /\ destCreated' = destCreated ]_vars
  /\ [](pc \in {"i_check", "v_return"} => lastTouched <= Len(migrationResults))
  /\ [][ pc = "v_return" => lastTouched' \in {lastTouched, 0} ]_vars

C1_Witness ==
  /\ pc = "v_return" /\ logEntryStatus = "cancelled"
  /\ Len(ret.migrationResults) = 2 /\ ret.itemsLength = 3
  /\ lastTouched = 2

\* C2: a vault whose item loop was stopped by cancellation is reported by
\* the bulk run as cancelled, never completed and never failed.
C2_CancelledVaultReported ==
  [][ (pc = "v_return" /\ mode = "bulk" /\ logEntryStatus = "cancelled"
       /\ pc' # pc)
      => Last(bulkResults').phase = "cancelled" ]_vars

\* C3: the bulk loop checks the flag before each vault; once it finds it
\* set the run ends: no remote call is issued for that vault or any later
\* one.
C3_CancelStopsVaults ==
  /\ [][ (pc = "bulk_check" /\ vi <= totalVaults /\ isMigrationCancelled
          /\ pc' # pc)
         => /\ pc' = "done" /\ streamEnded'
            /\ vaultTouched' = vaultTouched
            /\ bulkResults' = bulkResults ]_vars
  /\ [](pc = "bulk_check" => \A v \in vi..totalVaults : v \notin vaultTouched)
  /\ [][ pc = "done" => (pc' = "done" /\ vaultTouched' = vaultTouched) ]_vars

C3_Witness ==
  /\ pc = "done" /\ mode = "bulk" /\ lastEvent.kind = "cancelled"
  /\ totalVaults = 2 /\ vi = 2 /\ vaultTouched = {1}

\* C4: when the processing of an item ends without the item having been
\* created, the vault migration goes on: failureCount grows by exactly 1,
\* successCount is unchanged, one result with success = FALSE is appended
\* for that item, and the loop moves to the next item.
C4_ItemFailureContinues ==
  [][ (pc \in {"i_cli", "i_create"} /\ pc' # pc
       /\ destCreated' = destCreated)
      => /\ pc' = "i_check" /\ idx' = idx + 1 /\ items' = items
         /\ failureCount' = failureCount + 1
         /\ successCount' = successCount
         /\ Len(migrationResults') = Len(migrationResults) + 1
         /\ \A j \in 1..Len(migrationResults) :
              migrationResults'[j] = migrationResults[j]
         /\ ~Last(migrationResults').success
         /\ Last(migrationResults').id = items[idx]
         /\ logEntryStatus' = "in-progress" /\ thrown' = NoMsg ]_vars

C4_Witness ==
  /\ pc \in {"i_cli", "i_create", "i_get"} /\ idx = 2 /\ category # "none"
  /\ failureCount = 1 /\ ~migrationResults[1].success

\* C5: the counters agree at all times, and so at every progress callback
\* and at every return: successCount + failureCount = processedItems =
\* number of results, processedItems <= items.length; successCount never
\* decreases during a vault migration.
C5_CountsAgree ==
  /\ [](/\ successCount + failureCount = processedItems
        /\ processedItems = Len(migrationResults)
        /\ processedItems <= Len(items))
  /\ [](pc = "v_return" =>
          /\ ret.successCount + ret.failureCount = Len(ret.migrationResults)
          /\ ret.successCount = successCount
          /\ ret.failureCount = failureCount
          /\ Len(ret.migrationResults) = processedItems
          /\ Len(ret.migrationResults) <= ret.itemsLength)
  /\ [][ lastProgress' # lastProgress /\ lastProgress' # NoProgress
         => /\ lastProgress'.successCount + lastProgress'.failureCount
                 = lastProgress'.itemsProcessed
            /\ lastProgress'.itemsProcessed = Len(migrationResults')
            /\ lastProgress'.itemsProcessed = processedItems'
            /\ lastProgress'.itemsProcessed <= lastProgress'.totalItems
            /\ lastProgress'.totalItems = Len(items') ]_vars
  /\ [][ logEntryStatus = "in-progress" /\ logEntryStatus' # "none"
         => successCount' >= successCount ]_vars

C5_Witness ==
  /\ lastProgress # NoProgress /\ lastProgress.itemsProcessed = 3
  /\ lastProgress.successCount = 2 /\ lastProgress.failureCount = 1
  /\ pc = "v_return"

\* C6: a vault whose items were all processed is reported after the
\* destination count was read again: completed (success) exactly when
\* sourceItemCount = destItemCount and failureCount = 0, completed with
\* failures (phase completed, success FALSE) otherwise; the outcome carries
\* the counts that were read.
C6_Reconciliation ==
  [][ (pc = "v_return" /\ logEntryStatus = "completed" /\ pc' # pc)
      => /\ ret.destItemCount \in {destCreated, 0}
         /\ ret.sourceItemCount = sourceItemCount
         /\ IF mode = "bulk"
              THEN LET o == Last(bulkResults') IN
                   /\ o.phase = "completed"
                   /\ o.success = (sourceItemCount = ret.destItemCount
                                   /\ failureCount = 0)
                   /\ o.sourceItemCount = sourceItemCount
                   /\ o.destItemCount = ret.destItemCount
                   /\ o.successCount = successCount
                   /\ o.failureCount = failureCount
              ELSE /\ response'.status = 200
                   /\ response'.success = (sourceItemCount = ret.destItemCount
                                           /\ failureCount = 0)
                   /\ response'.stats.sourceItemCount = sourceItemCount
                   /\ response'.stats.destItemCount = ret.destItemCount ]_vars

C6_Witness ==
  /\ mode = "bulk" /\ Len(bulkResults) = 1
  /\ bulkResults[1].success /\ bulkResults[1].phase = "completed"
  /\ bulkResults[1].sourceItemCount = 3 /\ bulkResults[1].destItemCount = 3
  /\ bulkResults[1].successCount = 3 /\ bulkResults[1].failureCount = 0

\* C7: fn is invoked at most maxRetries times; another attempt follows a
\* failure only if its message is in the transient class and attempts
\* remain; the error of the last allowed attempt is the one thrown; after a
\* success, and after a throw, fn is not invoked again.
C7_RetryBounded ==
  /\ [](/\ rt.calls <= rt.maxRetries
        /\ (rt.status = "running" /\ rt.calls >= 1
              => TransientClass(rt.last.message) /\ rt.calls < rt.maxRetries)
        /\ (rt.status = "thrown"
              => rt.err = rt.last /\ rt.err.call = rt.calls
                 /\ rt.err.message # NoMsg)
        /\ (rt.calls >= 1 /\ rt.calls = rt.maxRetries /\ rt.last # NoErr
              => rt.status = "thrown" /\ rt.err = rt.last)
        /\ (rt.status = "returned" /\ rt.calls >= 1 => rt.last = NoErr))
  /\ [][ /\ rt'.calls \in {rt.calls, rt.calls + 1}
         /\ (rt.status \in {"returned", "thrown"} => rt' = rt) ]_vars

C7_Witness ==
  /\ rt.maxRetries = 3 /\ rt.calls = 3 /\ rt.status = "thrown"
  /\ rt.err.message = RateLimitMsg

\* C8: an error outside the transient class is thrown at once: the failing
\* invocation is the last one and no delay follows it; when it is the first
\* invocation, fn was invoked exactly once and nothing was waited.
C8_NonTransientImmediate ==
  (rt.last # NoErr /\ ~TransientClass(rt.last.message))
    => /\ rt.status = "thrown" /\ rt.err = rt.last
       /\ rt.last.call = rt.calls
       /\ Len(rt.waited) = rt.calls - 1
       /\ (rt.attempt = 1 => rt.calls = 1 /\ rt.waited = << >>)

C8_Witness ==
  /\ rt.maxRetries = 3 /\ rt.calls = 1 /\ rt.status = "thrown"
  /\ rt.err.message = ValidationMsg /\ rt.waited = << >>

\* C9: the delay after failed attempt a is baseDelay * 2^(a-1); a delay
\* follows only a retried attempt, so there are at most maxRetries - 1 of
\* them and none after the last attempt; with 3 attempts and 1000 ms the
\* delays are 1000 then 2000, at most 3000 in all.
C9_BackoffDelays ==
  /\ \A a \in 1..Len(rt.waited) :
       /\ rt.waited[a] = rt.baseDelay * 2 ^ (a - 1)
       /\ a < rt.maxRetries
  /\ (rt.status # "idle" => Len(rt.waited) = rt.attempt - 1)
  /\ (rt.status \in {"returned", "thrown"} /\ rt.calls >= 1
        => Len(rt.waited) = rt.calls - 1)
  /\ (rt.maxRetries = 3 /\ rt.baseDelay = 1000
        => rt.waited \in { << >>, << 1000 >>, << 1000, 2000 >> })

C9_Witness ==
  /\ rt.maxRetries = 3 /\ rt.baseDelay = 1000
  /\ rt.waited = << 1000, 2000 >> /\ rt.status = "thrown"

\* C10: every remote write of a migration goes through the retry executor:
\* a destination vault creation, a CLI item creation or an SDK item creation
\* that fails with a transient error is given up only after the third
\* attempt.
C10_WritesRetried ==
  [][ /\ (pc = "v_create" /\ pc' = "v_threw") => ~TransientClass(thrown')
      /\ (pc = "i_cli" /\ pc' = "i_check"
          /\ ~Last(migrationResults').success)
           => ~TransientClass(Last(migrationResults').error)
      /\ (pc = "i_create" /\ pc' = "i_check"
          /\ ~Last(migrationResults').success
          /\ TransientClass(Last(migrationResults').error))
           => rt.calls + 1 = DefaultMaxRetries ]_vars

\* C11: the destination vault of a vault exists before any of its items is
\* listed, read or written (the source count of getVaultItemCount, a count
\* and not an item, is taken before); when the creation of the destination
\* vault fails, the vault migration throws with no item listed or migrated.
C11_VaultBeforeItems ==
  /\ [](pc \in {"v_list", "i_check", "i_cli", "i_get", "i_read", "i_create"}
          => newVaultId # 0 /\ newVaultId = vi)
  /\ []((idx > 0 \/ lastTouched > 0 \/ destCreated > 0
         \/ migrationResults # << >> \/ items # << >>) => newVaultId # 0)
  /\ [][ (pc = "v_create" /\ pc' # pc /\ newVaultId' = 0)
         => /\ pc' = "v_threw" /\ thrown' # NoMsg
            /\ idx' = 0 /\ items' = << >> /\ lastTouched' = 0
            /\ destCreated' = 0 ]_vars
  /\ [][ (pc = "v_threw" /\ newVaultId = 0)
         => (idx' = 0 /\ items' = << >> /\ lastTouched' = 0
             /\ destCreated' = 0) ]_vars

C11_Witness ==
  /\ pc = "v_threw" /\ newVaultId = 0 /\ srcSize = 2 /\ sourceItemCount = 2
  /\ Includes(thrown, "Vault creation failed")
  /\ idx = 0 /\ lastTouched = 0

\* C12: the flag is written by POST /migration/cancel only, which sets it:
\* once set it stays set whatever request the server handles.
C12_FlagWrittenByCancelOnly ==
  [][ isMigrationCancelled => isMigrationCancelled' ]_vars

\* C13: in a bulk run a vault whose migration threw is recorded as failed
\* with the message of the error, the run is not ended, and the loop goes on
\* to the next vault, which is entered unless a cancellation was requested.
C13_VaultFailureContinues ==
  /\ [][ (pc = "v_threw" /\ mode = "bulk" /\ pc' # pc)
         => /\ pc' = "bulk_check" /\ vi' = vi + 1
            /\ totalVaults' = totalVaults /\ ~streamEnded'
            /\ Len(bulkResults') = Len(bulkResults) + 1
            /\ \A j \in 1..Len(bulkResults) : bulkResults'[j] = bulkResults[j]
            /\ Last(bulkResults').vaultId = vi
            /\ Last(bulkResults').phase = "failed"
            /\ ~Last(bulkResults').success
            /\ Last(bulkResults').error = thrown
            /\ thrown # NoMsg ]_vars
  /\ [][ (pc = "bulk_check" /\ vi <= totalVaults /\ ~isMigrationCancelled
          /\ pc' # pc)
         => (pc' = "v_count" /\ vi' = vi /\ ~streamEnded') ]_vars

C13_Witness ==
  /\ mode = "bulk" /\ Len(bulkResults) = 2
  /\ bulkResults[1].phase = "failed"
  /\ Includes(bulkResults[1].error, "Item listing failed")
  /\ bulkResults[2].phase = "completed" /\ bulkResults[2].success
  /\ bulkResults[2].successCount = 2

\* C14: when the event stream of a bulk run is ended, the last event written
\* is a terminal event (finished = true).
C14_TerminalEvent ==
  streamEnded => lastEvent.finished

\* C15: every vault outcome of the final results carries its counts of
\* succeeded and failed items, and every failed item has a result with
\* success = false and an error message.
C15_OutcomesCarryCounts ==
  \A i \in 1..Len(bulkResults) :
    /\ bulkResults[i].successCount # Null
    /\ bulkResults[i].failureCount # Null
    /\ \A j \in 1..Len(bulkResults[i].results) :
         ~bulkResults[i].results[j].success
           => bulkResults[i].results[j].error # NoMsg

\* C16 (as amended): once createCustomItemViaCLI has written the temporary
\* file, unlinkSync is called on it before the function returns or throws,
\* whether `op item create` succeeds or fails; the file is left behind only
\* when that removal itself fails.  Nothing is left when no file was written.
C16_TempFileRemovalAttempted ==
  /\ cli.tmpWritten => cli.tmpUnlinkCalled
  /\ cli.tmpLeft => (cli.tmpWritten /\ cli.tmpUnlinkCalled)
  /\ cli.tmpWritten <=> cli.step \in {"create", "done"}
  /\ cli.step \in {"get", "template", "write", "create"} <=> cli.error # NoMsg

C16_Witness ==
  /\ cli.step = "create" /\ cli.tmpWritten /\ cli.tmpUnlinkCalled
  /\ ~cli.tmpLeft /\ cli.error = RateLimitMsg
  /\ pc = "i_check" /\ ~Last(migrationResults).success

\* C16 (as written): once the temporary file has been written it is removed
\* before the function returns or throws.
C16_TempFileRemoved ==
  cli.tmpWritten => ~cli.tmpLeft

\* C17: a custom item met with no template id supplied and no custom
\* template in the destination fails with an error that tells the operator
\* to supply a template id; whatever step of the bridge fails, the item is
\* recorded as failed with the error of the bridge, nothing is thrown out of
\* the vault migration, and the loop goes on to the next item.
C17_BridgeFailureIsItemFailure ==
  /\ [][ (pc = "i_cli" /\ pc' # pc)
         => /\ pc' = "i_check" /\ idx' = idx + 1 /\ items' = items
            /\ thrown' = NoMsg /\ logEntryStatus' = "in-progress"
            /\ Len(migrationResults') = Len(migrationResults) + 1
            /\ Last(migrationResults').id = items[idx]
            /\ Last(migrationResults').success = (cli'.error = NoMsg)
            /\ Last(migrationResults').error = cli'.error
            /\ failureCount' =
                 failureCount + (IF cli'.error = NoMsg THEN 0 ELSE 1)
            /\ (cli'.templates = "none"
                  => /\ customTemplateId = ""
                     /\ cli'.step = "template"
                     /\ Includes(cli'.error, TemplateHint)
                     /\ ~Last(migrationResults').success
                     /\ destCreated' = destCreated)
            /\ (cli'.step \in {"write", "create", "done"}
                  => customTemplateId # "" \/ cli'.templates = "found") ]_vars
  /\ [][ (pc = "i_check" /\ idx <= Len(items) /\ ~isMigrationCancelled
          /\ pc' # pc)
         => pc' \in {"i_cli", "i_get", "i_create"} ]_vars

C17_Witness ==
  /\ cli.templates = "none" /\ customTemplateId = ""
  /\ pc = "i_check" /\ idx = 2 /\ Len(items) = 2
  /\ ~migrationResults[1].success
  /\ Includes(migrationResults[1].error, TemplateHint)
  /\ logEntryStatus = "in-progress"

\* C18: an item goes to the CLI bridge exactly when its category, lowered,
\* is "custom" or "unsupported"; an item of the bridge never reaches the SDK
\* create call and an item of the SDK path never reaches the bridge, so an
\* item is created through one path only.
C18_RoutingBySentinel ==
  /\ [](\A c \in CategorySpellings :
          IsCustomItem(c) <=> ToLowerCase(c) \in {"custom", "unsupported"})
  /\ [](pc = "i_cli" => ToLowerCase(category) \in {"custom", "unsupported"})
  /\ [](pc \in {"i_get", "i_read", "i_create"}
          => ToLowerCase(category) \notin {"custom", "unsupported"})
  /\ [][ pc = "i_cli" => pc' \in {"i_cli", "i_check"} ]_vars
  /\ [][ (pc \in {"i_get", "i_read", "i_create"})
         => pc' \in {"i_get", "i_read", "i_create", "i_check"} ]_vars
  /\ [][ destCreated' = destCreated + 1
         => \/ pc = "i_cli" /\ cli'.step = "done"
            \/ pc = "i_create" /\ cli' = CliIdle ]_vars

C18_Witness ==
  /\ pc = "i_cli" /\ category = "UNSUPPORTED" /\ idx = 2
  /\ migrationResults[1].success /\ cli = CliIdle /\ destCreated = 1

\* C19: every field of an item handed to the destination create call has a
\* field type of the set the destination accepts; a source field of a
\* foreign type is emitted as plain text.
C19_FieldTypesAccepted ==
  pc \in { "b_create", "b_created" }
    => \A i \in DOMAIN newItem.fields :
         newItem.fields[i].fieldType \in AcceptedFieldTypes

\* C20: in an item handed to the destination create call, every section a
\* field or a file refers to is one of the item's sections, "add more"
\* included.
C20_SectionRefsPresent ==
  pc \in { "b_create", "b_created" }
    => /\ \A i \in DOMAIN newItem.fields :
            newItem.fields[i].sectionId \in SectionIdsOf(newItem) \cup { Undefined }
       /\ \A i \in DOMAIN newItem.files :
            newItem.files[i].sectionId \in SectionIdsOf(newItem)

\* C21: expiry normalisation is total and idempotent: MM/YYYY is returned
\* unchanged, MM-YYYY becomes MM/YYYY, MMYY and MM/YY become MM/20YY, an empty
\* or unparseable value becomes 01/1970; the output always has the form
\* MM/YYYY, and normalising an output returns it unchanged.
C21_ExpiryNormalization ==
  (pc = "f_cc" /\ IsExpiryField(srcField))
    => LET v == srcField.value
           o == newField.value
       IN  /\ Len(o) = 7 /\ o[3] = "/"
           /\ \A i \in { 1, 2, 4, 5, 6, 7 } : o[i] \in Digits
           /\ ExpiryValue(o) = o
           /\ IsMonthSepYear(v, "/") => o = v
           /\ IsMonthSepYear(v, "-")
                => o = << v[1], v[2], "/", v[4], v[5], v[6], v[7] >>
           /\ IsMMYY(v) => o = << v[1], v[2], "/", "2", "0", v[3], v[4] >>
           /\ IsMonthSlashYY(v)
                => o = << v[1], v[2], "/", "2", "0", v[4], v[5] >>
           /\ (~IsMonthSepYear(v, "/") /\ ~IsMonthSepYear(v, "-")
                 /\ ~IsMMYY(v) /\ ~IsMonthSlashYY(v))
                => o = DefaultExpiry

C21_Witness ==
  /\ pc = "f_cc" /\ srcField.id = "expiry"
  /\ srcField.value = << "0", "2", "2", "5" >>
  /\ newField.value = << "0", "2", "/", "2", "0", "2", "5" >>

\* C22: a one-time-code field whose value is a base-32 seed of 16 to 32
\* characters or begins as an otpauth URI keeps its type and its value; with
\* any other value it becomes plain text and keeps its value.
C22_TotpKeptOrDowngraded ==
  (pc \in { "f_cc", "f_other" } /\ srcField.fieldType = "Totp")
    => LET v == IF srcField.value # << >> THEN srcField.value
                ELSE PartOrEmpty(srcField.details.content, "totp")
       IN  /\ newField.fieldType = IF IsTotpValue(v) THEN "Totp" ELSE "Text"
           /\ newField.value = v

\* C23: in a credit-card item a field with a built-in role gets the field
\* type of the role; a field whose id is expiry or whose title contains
\* expiry or expiration always ends with the month-year type.
C23_RoleDecidesType ==
  pc = "f_cc"
    => /\ IsExpiryField(srcField) => newField.fieldType = "MonthYear"
       /\ (IsTypeField(srcField) /\ ~IsExpiryField(srcField)
             /\ ~IsNumberField(srcField) /\ ~IsCvvField(srcField)
             /\ ~IsPinField(srcField))
            => newField.fieldType = "CreditCardType"
       /\ (IsNumberField(srcField) /\ ~IsCvvField(srcField) /\ ~IsPinField(srcField))
            => newField.fieldType = "CreditCardNumber"
       /\ (IsCvvField(srcField) \/ IsPinField(srcField))
            => newField.fieldType = "Concealed"

\* C24: the value of the card-type field is normalised without regard to
\* case: mc, visa, amex and discover give the name of the network, every
\* other value gives Unknown.
C24_CardTypeNormalized ==
  (pc = "f_cc" /\ IsTypeField(srcField) /\ ~IsExpiryField(srcField))
    => LET lower == LowerCaseOf(srcField.value) IN
       newField.value =
         CASE lower = << "m", "c" >> -> << "M", "a", "s", "t", "e", "r", "c", "a", "r", "d" >>
           [] lower = << "v", "i", "s", "a" >> -> << "V", "i", "s", "a" >>
           [] lower = << "a", "m", "e", "x" >> -> << "A", "m", "e", "r", "i", "c", "a", "n", " ", "E", "x", "p", "r", "e", "s", "s" >>
           [] lower = << "d", "i", "s", "c", "o", "v", "e", "r" >> -> << "D", "i", "s", "c", "o", "v", "e", "r" >>
           [] OTHER -> << "U", "n", "k", "n", "o", "w", "n" >>

\* C26: every field of type Address of a destination item has the details
\* with the five sub-fields street, city, state, zip and country, each a
\* string.
C26_AddressComplete ==
  (pc \in { "f_cc", "f_other" } /\ newField.fieldType = "Address")
    => /\ newField.details.hasContent
       /\ DOMAIN newField.details.content = AddressParts

\* C25: a secure note created through the SDK whose source notes are blank
\* (empty or white space only) gets the placeholder as its notes; the notes
\* of a destination secure note are never blank.
C25_SecureNoteNotes ==
  (pc \in { "b_create", "b_created" } /\ newItem.category = "SecureNote")
    => /\ ~IsBlank(newItem.notes)
       /\ IsBlank(item.notes) => newItem.notes = NotesPlaceholder

\* C27: while a run lasts the global log is append-only: whatever requests
\* are served meanwhile, it never shrinks and no entry of it is changed or
\* removed.
C27_LogAppendOnly ==
  [][ (pc = "l_run")
        => /\ Len(logger'.globalLog) >= Len(logger.globalLog)
           /\ SubSeq(logger'.globalLog, 1, Len(logger.globalLog))
                = logger.globalLog ]_vars

\* C28: within one run of a vault the enumerated items are processed once
\* each, in the order of the enumeration: the results are those of the first
\* items of the list, in its order, no id twice, a failed item being recorded
\* like any other and left behind; the results cover the whole list when the
\* loop ends, and the items before the cancellation check that ended it
\* otherwise.
C28_ItemsOnceInOrder ==
  /\ Len(migrationResults) <= Len(items)
  /\ \A k \in 1..Len(migrationResults) : migrationResults[k].id = items[k]
  /\ \A j, k \in 1..Len(migrationResults) :
       migrationResults[j].id = migrationResults[k].id => j = k
  /\ (pc \in { "i_check", "i_cli", "i_get", "i_read", "i_create" })
       => Len(migrationResults) = idx - 1
  /\ (pc = "v_return" /\ logEntryStatus = "completed")
       => /\ Len(migrationResults) = Len(items)
          /\ ret.migrationResults = migrationResults
  /\ (pc = "v_return" /\ logEntryStatus = "cancelled")
       => /\ Len(migrationResults) = idx - 1
          /\ ret.migrationResults = migrationResults

C28_Witness ==
  /\ pc = "v_return" /\ logEntryStatus = "completed"
  /\ Len(items) = 3 /\ Len(migrationResults) = 3
  /\ migrationResults[1].success /\ ~migrationResults[2].success
  /\ migrationResults[3].success

\* C29: while the items of a vault are enumerated, at most
\* ITEM_CONCURRENCY_LIMIT remote reads of items, files and documents are in
\* flight.
C29_ItemReadsLimited == InFlight <= ITEM_CONCURRENCY_LIMIT

CarriesProgress(e) == e.kind \in { "preparing", "migrating", "outcome" }

\* The fraction of the current vault that is done.
VaultFraction(processed, total) ==
  IF total = 0 THEN Frac(0, 1) ELSE Frac(processed, total)

C32_WritesIntoOwnVault ==
  \A w \in destination.writes :
    /\ w.vault \in destination.created
    /\ w.vault = w.source

\* A bulk run wrote items of two source vaults, each into the vault created
\* for it, one of them through the CLI bridge.
C32_Witness ==
  /\ mode = "bulk"
  /\ \E w1, w2 \in destination.writes : w1.source = 1 /\ w2.source = 2
  /\ cli.step # "none" /\ cli.error = NoMsg
  /\ destCreated > 0

\* The name is "recovery" in some letter case.
IsRecoveryInAnyCase(name) ==
  /\ Len(name) = 8
  /\ name[1] \in { "r", "R" } /\ name[2] \in { "e", "E" }
  /\ name[3] \in { "c", "C" } /\ name[4] \in { "o", "O" }
  /\ name[5] \in { "v", "V" } /\ name[6] \in { "e", "E" }
  /\ name[7] \in { "r", "R" } /\ name[8] \in { "y", "Y" }

\* It is a group list without a recovery group that holds every other named
\* group of the CLI listing.
IsListOfOtherGroups(groups, allGroups) ==
  /\ \A i \in DOMAIN groups : ~IsRecoveryInAnyCase(groups[i].name)
  /\ \A i \in DOMAIN allGroups :
        (allGroups[i].name # << >> /\ ~IsRecoveryInAnyCase(allGroups[i].name))
          => \E k \in DOMAIN groups :
               groups[k] = [id |-> allGroups[i].id, name |-> allGroups[i].name]

\* C33: the group list the vault manager holds, and the one GET /api/groups
\* returns, has no group named recovery in any letter case and has every
\* other named group of the CLI group listing it was made from.
C33_GroupsWithoutRecovery ==
  /\ IsListOfOtherGroups(vaultManager.accountGroups, vaultManager.listed)
  /\ \A i \in DOMAIN vaultManager.groupsResponse :
        ~IsRecoveryInAnyCase(vaultManager.groupsResponse[i].name)

\* An authentication whose listing held a group named recovery in mixed case
\* and another group has ended, and GET /api/groups returned the one group.
C33_Witness ==
  /\ vaultManager.ended.step = "done"
  /\ Len(vaultManager.listed) = 2
  /\ \E i \in DOMAIN vaultManager.listed :
        /\ IsRecoveryInAnyCase(vaultManager.listed[i].name)
        /\ vaultManager.listed[i].name # Recovery
  /\ Len(vaultManager.groupsResponse) = 1
  /\ vaultManager.groupsResponse = vaultManager.accountGroups

\* C34: after any sequence of toggles from the empty selection, every
\* checked permission has all the permissions it requires checked; a toggle
\* that checks a permission leaves it and its requirements checked, and a
\* toggle that unchecks one leaves nothing checked that depends on it.
C34_SelectionClosed ==
  /\ [](\A p \in vaultManager.checked :
          PermissionDeps[p] \subseteq vaultManager.checked)
  /\ [][ \A p \in PermissionIds :
           /\ (p \in vaultManager'.checked \ vaultManager.checked)
                => PermissionDeps[p] \subseteq vaultManager'.checked
           /\ (p \in vaultManager.checked \ vaultManager'.checked)
                => \A q \in vaultManager'.checked : p \notin PermissionDeps[q]
       ]_vars

\* Move Items was checked, which checked its six requirements, and then View
\* History was unchecked, which unchecked what depends on it.
C34_Witness ==
  /\ mode = "perm"
  /\ vaultManager.checked =
       { "perm-view-items", "perm-view-passwords", "perm-edit-items",
         "perm-delete-items" }

\* C35: when a vault migration has gone through its items and returns, it
\* holds one result for every item summary of the source vault, the items
\* whose full fetch failed during the enumeration included, each of those
\* counted as a failure.
C35_EveryListedItemHasResult ==
  (pc = "v_return" /\ logEntryStatus = "completed")
    => /\ Len(ret.migrationResults) = srcSize
       /\ ret.failureCount >= srcSize - Len(items)

\* C36: a run, single-vault or bulk, begins with the cancellation flag
\* false, whatever was requested before it: when a request with its
\* parameters present is accepted, the flag is false.
C36_RunStartsUncancelled ==
  [][ (pc = "idle" /\ pc' \in { "single_init", "bulk_init" })
      => isMigrationCancelled' = FALSE ]_vars

\* C37: after any sequence of log, info, warning, error, logFailedItem,
\* logVaultComplete and clear calls on the LogManager, errorCount is the
\* number of ERROR entries of the global log and warningCount the number of
\* WARNING entries, every entry of a vault log is in the global log,
\* failedItems has no more entries than errorCount, and clear leaves all of
\* them empty or zero.
EntriesAt(entries, level) ==
  Cardinality({ i \in 1..Len(entries) : entries[i].level = level })

LogCountsAgree ==
  /\ logger.errorCount = EntriesAt(logger.globalLog, "ERROR")
  /\ logger.warningCount = EntriesAt(logger.globalLog, "WARNING")
  /\ \A v \in DOMAIN logger.vaultLogs :
       \A i \in 1..Len(logger.vaultLogs[v]) :
         \E j \in 1..Len(logger.globalLog) :
           logger.globalLog[j] = logger.vaultLogs[v][i]
  /\ logger.failedItems <= logger.errorCount

C37_LogCountsAgree ==
  /\ []LogCountsAgree
  /\ [][ ClearLogs
          => /\ logger'.globalLog = << >> /\ logger'.vaultLogs = << >>
             /\ logger'.errorCount = 0 /\ logger'.warningCount = 0
             /\ logger'.failedItems = 0 /\ logger'.vaultSummaries = {} ]_vars



\* C38: the summary carried by the finished event of a bulk run counts only
\* what that run logged: its failedItems is the sum of the failureCount of
\* the vaults of the run.
C38_SummaryOfThisRun ==
  (pc = "l_idle" /\ lastEvent.finished)
    => lastEvent.summary.failedItems = failureCount

\* C39: for each source item the destination create operation is invoked at
\* most 3 times through the SDK, a further invocation following only a
\* transient failure of the one before, and at most once through the CLI
\* bridge, never through both; once a create call has succeeded the loop is
\* at the next item and no further create is issued for that one.
C39_CreateBounded ==
  /\ []((pc = "i_create")
          => /\ rt.calls < DefaultMaxRetries
             /\ rt.calls >= 1 => TransientClass(rt.last.message))
  /\ [][ /\ (pc # "i_create" /\ pc' = "i_create") => rt'.calls = 0
         /\ (pc = "i_create" /\ pc' = "i_create")
              => rt'.calls \in { rt.calls, rt.calls + 1 } /\ idx' = idx
         /\ (pc = "i_create" /\ pc' = "i_create" /\ rt' # rt)
              => /\ rt'.calls = rt.calls + 1
                 /\ TransientClass(rt'.last.message)
                 /\ destCreated' = destCreated
         /\ (pc = "i_create" /\ pc' # "i_create")
              => pc' = "i_check" /\ idx' = idx + 1
         /\ (pc = "i_cli" /\ pc' # pc)
              => /\ pc' = "i_check" /\ idx' = idx + 1
                 /\ cli.step = "none" /\ cli'.step # "none"
         /\ (destCreated' > destCreated)
              => /\ destCreated' = destCreated + 1
                 /\ pc \in { "i_create", "i_cli" } /\ idx' = idx + 1
                 /\ Last(migrationResults').success
                 /\ Last(migrationResults').id = Item(idx).id ]_vars

\* The create of an item of the SDK path was invoked three times, each time
\* failing with a rate limit, and the item is recorded as failed with the
\* third error.
C39_Witness ==
  /\ pc = "i_check" /\ cli = CliIdle /\ migrationResults # << >>
  /\ ~Last(migrationResults).success
  /\ Last(migrationResults).error = RateLimitMsg

\* C40: in the vault manager server the group list, the SDK client and the
\* selected account belong to the same account whenever an authentication
\* attempt has ended: an attempt that failed at any step (signin, group
\* fetch or SDK authorization) leaves all three as they were when it began,
\* and one that succeeded leaves all three those of its account.
C40_AuthAllOrNothing ==
  [][ (mode = "auth" /\ vaultManager'.ended # vaultManager.ended)
      => LET e == vaultManager'.ended IN
         IF e.step = "error"
           THEN /\ vaultManager'.opClient = e.opClient
                /\ vaultManager'.selectedAccount = e.selectedAccount
                /\ vaultManager'.accountGroups = e.accountGroups
           ELSE /\ vaultManager'.opClient = e.account
                /\ vaultManager'.selectedAccount = e.account
                /\ vaultManager'.groupsOf = e.account ]_vars

====
